---- MODULE Spec2Model ----
(***************************************************************************)
(* Aurora file-handle overlays: the buffered handle CFile (FILE* stream)   *)
(* and the descriptor handle PosixFile (int descriptor), modelled as one   *)
(* sequential program that constructs a handle on one path, calls its      *)
(* methods and destroys it.  The native C library and kernel calls are     *)
(* modelled by the operators named after them; every method is an operator *)
(* from the machine state (native resource, file on disk, errno) to the    *)
(* method's outcome, and one action applies it.                            *)
(* Further programs reopen a written file (SpecReopen), read lines         *)
(* (SpecLines), write a line and read it back (SpecTrip), follow           *)
(* ReadElements pass by pass (SpecRead) and share one handle between       *)
(* threads (SpecThreads).                                                  *)
(***************************************************************************)
EXTENDS Integers, Sequences, FiniteSets, TLC

VARIABLES
    disk,                 \* the file at the handle's path: [exists, data]
    life,                 \* "none" | "alive" | "destroyed" | "nohandle" | "aborted"
    cls,                  \* class of the current object: "CFile" | "PosixFile" | "none"
    m_eFileType,          \* CFile: "TEXT" | "BINARY"
    m_eFileAccessMode,    \* CFile: "READ" .. "APPEND_EXTENDED"
    m_pkFilePointer,      \* CFile: "nullptr" | "FILE"
    m_siFileDescriptor,   \* PosixFile: -1 or the descriptor
    res,                  \* the native resource behind the handle (stream / open file description)
    opens,                \* native open calls issued for the current object
    closes,               \* native close calls issued for the current object
    calls,                \* method calls made on the object so far
    misuse,               \* a method issued a native call on a resource that was not open
    last,                 \* outcome of the call just made, errno as it leaves it included
    hist,                 \* history of the program that reopens the file (see NoHistory)
    frame,                \* the ReadElements call in progress, of the program that runs it step by step
    threads               \* the threads that share the handle, and the lock of its stream

vars == <<disk, life, cls, m_eFileType, m_eFileAccessMode, m_pkFilePointer,
          m_siFileDescriptor, res, opens, closes, calls, misuse, last, hist,
          frame, threads>>

-----------------------------------------------------------------------------
(* Bounds of the model.                                                    *)

MaxLen == 2       \* longest file content
MaxOff == 3       \* largest position / seek offset explored
MaxFault == 3     \* latest native call of a loop that is made to fail
MaxStr == 1       \* longest string written by one call
MaxElem == 2      \* largest element size
MaxCalls == 2     \* method calls made on one handle between construction and destruction
MaxHandles == 2   \* handles constructed one after the other by the program that reopens the file
MaxLine == 5      \* longest text read by the program that reads lines
MaxReads == 3     \* lines read through one handle by that program
MaxTrip == 3      \* longest string written and read back by the program that rewinds
MaxThreads == 2   \* threads that share one handle
MaxOps == 4       \* lock acquisitions and line writes the threads start

(* Scaled-down stand-in for 2^64, the width of uint64_t. *)
UintModulus == 1048576

-----------------------------------------------------------------------------
(* Values of the C library.                                                *)

ENOENT == 2
EIO == 5
EBADF == 9
EEXIST == 17
EINVAL == 22

ST_BLKSIZE == 4096
EOF == -1
BYTE_END_OF_FILE == EOF

(* wint_t is signed on some platforms (WEOF = -1) and unsigned on others   *)
(* (WEOF = 0xFFFF where wint_t is 16 bits wide).                          *)
WEOF_SIGNED == -1
WEOF_UNSIGNED == 65535
WideEOFs == {WEOF_SIGNED, WEOF_UNSIGNED}

(* Lengths of the chunk buffers of the string and line readers, scaled down. *)
BYTE_STRING_BUFFER_LENGTH == 2
WIDE_STRING_BUFFER_LENGTH == 2
NL == 10          \* '\n'
CH == 97          \* some other character

Bytes == {0, NL, CH}
Written == {NL, CH}

NULLPTR == "nullptr"
FILEPTR == "FILE"

(* A fault names the native call of a method (1 = its first) that the      *)
(* environment makes fail, and the errno it sets; at = 0 is no fault.      *)
NoFault == [at |-> 0, e |-> 0]
Faults(n) == {NoFault} \cup {[at |-> k, e |-> EIO] : k \in 1..n}
FaultAt(flt, k) == IF flt.at = k THEN flt.e ELSE 0
Shift(flt, n) == IF flt.at > n THEN [flt EXCEPT !.at = flt.at - n] ELSE NoFault

(* Body applied to the value of v, computed once. *)
Bind(v, Body(_)) == CHOOSE y \in {Body(x) : x \in {v}} : TRUE

Min(a, b) == IF a < b THEN a ELSE b
Max(a, b) == IF a > b THEN a ELSE b

-----------------------------------------------------------------------------
(* The enumerations and tables of CFile.                                   *)

FileType == {"TEXT", "BINARY"}
FileAccessMode == {"READ", "WRITE", "APPEND",
                   "READ_EXTENDED", "WRITE_EXTENDED", "APPEND_EXTENDED"}

(* Mutant: the rows of READ and WRITE exchanged. *)
FILE_ACCESS_MODE_STRINGS_Exchanged(eFileAccessMode, eFileType) ==
    LET row == CASE eFileAccessMode = "READ"            -> <<"w", "wb">>
                 [] eFileAccessMode = "WRITE"           -> <<"r", "rb">>
                 [] eFileAccessMode = "APPEND"          -> <<"a", "ab">>
                 [] eFileAccessMode = "READ_EXTENDED"   -> <<"r+", "rb+">>
                 [] eFileAccessMode = "WRITE_EXTENDED"  -> <<"w+", "wb+">>
                 [] eFileAccessMode = "APPEND_EXTENDED" -> <<"a+", "ab+">>
    IN IF eFileType = "TEXT" THEN row[1] ELSE row[2]

FILE_ACCESS_MODE_STRINGS(eFileAccessMode, eFileType) ==
    LET row == CASE eFileAccessMode = "READ"            -> <<"r", "rb">>
                 [] eFileAccessMode = "WRITE"           -> <<"w", "wb">>
                 [] eFileAccessMode = "APPEND"          -> <<"a", "ab">>
                 [] eFileAccessMode = "READ_EXTENDED"   -> <<"r+", "rb+">>
                 [] eFileAccessMode = "WRITE_EXTENDED"  -> <<"w+", "wb+">>
                 [] eFileAccessMode = "APPEND_EXTENDED" -> <<"a+", "ab+">>
    IN IF eFileType = "TEXT" THEN row[1] ELSE row[2]

(* Methods take the object as `this`: its member variables. *)
IsTextFile(this) == this.m_eFileType = "TEXT"
IsBinaryFile(this) == this.m_eFileType = "BINARY"
IsReadOnly(this) == this.m_eFileAccessMode = "READ"
IsWriteOnly(this) ==
    \/ this.m_eFileAccessMode = "WRITE"
    \/ this.m_eFileAccessMode = "APPEND"
(* Mutant: every access mode passes for read-write. *)
IsReadWrite_AnyMode(this) == this.m_eFileAccessMode \in FileAccessMode

IsReadWrite(this) ==
    \/ this.m_eFileAccessMode = "READ_EXTENDED"
    \/ this.m_eFileAccessMode = "WRITE_EXTENDED"
    \/ this.m_eFileAccessMode = "APPEND_EXTENDED"

(* The open flags of PosixFile the model explores. *)
OpenFlagSets ==
    { {"READ_ONLY"},
      {"READ_WRITE"},
      {"WRITE_ONLY", "CREATE", "TRUNCATE"},
      {"READ_WRITE", "CREATE"},
      {"READ_WRITE", "CREATE", "EXCLUSIVE"},
      {"WRITE_ONLY", "CREATE", "APPEND"} }

-----------------------------------------------------------------------------
(* The native resource and the file on disk.                               *)

ClosedRes ==
    [open |-> FALSE, rd |-> FALSE, wr |-> FALSE, append |-> FALSE,
     pos |-> 0, wbuf |-> <<>>, pushback |-> <<>>, bufMode |-> "FULL",
     orient |-> 0]

NoFile == [exists |-> FALSE, data |-> <<>>]

(* data with bytes written at offset off (a gap is filled with zero bytes). *)
Overlay(data, off, bytes) ==
    LET n == Max(Len(data), off + Len(bytes))
    IN [i \in 1..n |->
            IF i > off /\ i <= off + Len(bytes) THEN bytes[i - off]
            ELSE IF i <= Len(data) THEN data[i]
            ELSE 0]

(* data cut or zero-extended to length n. *)
Resize(data, n) == [i \in 1..n |-> IF i <= Len(data) THEN data[i] ELSE 0]

(* The stream's pending output reaches the file (at its end in append mode). *)
FlushBuf(s) ==
    IF s.res.wbuf = <<>> THEN s
    ELSE LET off == IF s.res.append THEN Len(s.disk.data)
                    ELSE s.res.pos - Len(s.res.wbuf)
         IN [s EXCEPT !.disk.data = Overlay(s.disk.data, off, s.res.wbuf),
                      !.res.wbuf = <<>>,
                      !.res.pos = off + Len(s.res.wbuf)]

SetErrno(s, e) == [s EXCEPT !.errno = e]

-----------------------------------------------------------------------------
(* Native calls: each maps the machine state s = [res, disk, errno] and    *)
(* the environment's fault f (0 = none) to [ret, s].                       *)

fopen(s, acModeString, f) ==
    LET plus == acModeString \in {"r+", "rb+", "w+", "wb+", "a+", "ab+"}
        r == acModeString \in {"r", "rb", "r+", "rb+"}
        w == acModeString \in {"w", "wb", "w+", "wb+"}
        a == acModeString \in {"a", "ab", "a+", "ab+"}
    IN IF f # 0 THEN [ret |-> NULLPTR, s |-> SetErrno(s, f)]
       ELSE IF r /\ ~s.disk.exists THEN [ret |-> NULLPTR, s |-> SetErrno(s, ENOENT)]
       ELSE [ret |-> FILEPTR,
             s |-> [s EXCEPT
                 !.disk = [exists |-> TRUE,
                           data |-> IF w \/ ~s.disk.exists THEN <<>> ELSE s.disk.data],
                 !.res = [ClosedRes EXCEPT !.open = TRUE,
                                           !.rd = r \/ plus,
                                           !.wr = w \/ a \/ plus,
                                           !.append = a]]]

open(s, siOpenFlags, f) ==
    LET creat == "CREATE" \in siOpenFlags
        rd == "READ_ONLY" \in siOpenFlags \/ "READ_WRITE" \in siOpenFlags
        wr == "WRITE_ONLY" \in siOpenFlags \/ "READ_WRITE" \in siOpenFlags
    IN IF f # 0 THEN [ret |-> -1, s |-> SetErrno(s, f)]
       ELSE IF ~s.disk.exists /\ ~creat THEN [ret |-> -1, s |-> SetErrno(s, ENOENT)]
       ELSE IF s.disk.exists /\ creat /\ "EXCLUSIVE" \in siOpenFlags
            THEN [ret |-> -1, s |-> SetErrno(s, EEXIST)]
       ELSE [ret |-> 3,
             s |-> [s EXCEPT
                 !.disk = [exists |-> TRUE,
                           data |-> IF ~s.disk.exists \/ ("TRUNCATE" \in siOpenFlags /\ wr)
                                    THEN <<>> ELSE s.disk.data],
                 !.res = [ClosedRes EXCEPT !.open = TRUE, !.rd = rd, !.wr = wr,
                                           !.append = "APPEND" \in siOpenFlags]]]

(* fclose writes the pending output and releases the stream, also when it fails. *)
fclose(s, f) ==
    LET t == IF f # 0 THEN s ELSE FlushBuf(s)
        u == [t EXCEPT !.res = ClosedRes]
    IN IF f # 0 THEN [ret |-> EOF, s |-> SetErrno(u, f)]
       ELSE [ret |-> 0, s |-> u]

close(s, f) ==
    LET u == [s EXCEPT !.res = ClosedRes]
    IN IF f # 0 THEN [ret |-> -1, s |-> SetErrno(u, f)]
       ELSE [ret |-> 0, s |-> u]

(* fstat: ret is 0 or -1; size is st_size. *)
fstat(s, f) ==
    IF f # 0 THEN [ret |-> -1, size |-> 0, blksize |-> 0, s |-> SetErrno(s, f)]
    ELSE [ret |-> 0, size |-> Len(s.disk.data), blksize |-> ST_BLKSIZE, s |-> s]

fflush(s, f) ==
    IF f # 0 THEN [ret |-> EOF, s |-> SetErrno(s, f)]
    ELSE [ret |-> 0, s |-> FlushBuf(s)]

ftello(s, f) ==
    IF f # 0 THEN [ret |-> -1, s |-> SetErrno(s, f)]
    ELSE [ret |-> s.res.pos, s |-> s]

SeekTarget(s, offset, whence) ==
    CASE whence = "SEEK_SET" -> offset
      [] whence = "SEEK_CUR" -> s.res.pos + offset
      [] whence = "SEEK_END" -> Len(s.disk.data) + offset

(* fseeko writes the pending output, then moves the position. *)
fseeko(s, offset, whence, f) ==
    LET t == FlushBuf(s)
        target == SeekTarget(t, offset, whence)
    IN IF f # 0 THEN [ret |-> -1, s |-> SetErrno(s, f)]
       ELSE IF target < 0 THEN [ret |-> -1, s |-> SetErrno(t, EINVAL)]
       ELSE [ret |-> 0, s |-> [t EXCEPT !.res.pos = target, !.res.pushback = <<>>]]

(* lseek returns the new offset. *)
lseek(s, offset, whence, f) ==
    LET target == SeekTarget(s, offset, whence)
    IN IF f # 0 THEN [ret |-> -1, s |-> SetErrno(s, f)]
       ELSE IF target < 0 THEN [ret |-> -1, s |-> SetErrno(s, EINVAL)]
       ELSE [ret |-> target, s |-> [s EXCEPT !.res.pos = target]]

(* ftruncate needs a descriptor open for writing. *)
ftruncate(s, length, f) ==
    IF f # 0 THEN [ret |-> -1, s |-> SetErrno(s, f)]
    ELSE IF ~s.res.wr THEN [ret |-> -1, s |-> SetErrno(s, EINVAL)]
    ELSE [ret |-> 0, s |-> [s EXCEPT !.disk.data = Resize(s.disk.data, length)]]

(* read transfers at most lim bytes from the offset; 0 at or past the end. *)
read(s, nbyte, lim, f) ==
    LET avail == IF s.res.pos < Len(s.disk.data) THEN Len(s.disk.data) - s.res.pos ELSE 0
        cnt == Min(Min(nbyte, avail), lim)
    IN IF f # 0 THEN [ret |-> -1, buf |-> <<>>, s |-> SetErrno(s, f)]
       ELSE IF ~s.res.rd THEN [ret |-> -1, buf |-> <<>>, s |-> SetErrno(s, EBADF)]
       ELSE [ret |-> cnt,
             buf |-> SubSeq(s.disk.data, s.res.pos + 1, s.res.pos + cnt),
             s |-> [s EXCEPT !.res.pos = s.res.pos + cnt]]

(* write transfers at most lim bytes to the offset (the end with O_APPEND). *)
write(s, bytes, lim, f) ==
    LET off == IF s.res.append THEN Len(s.disk.data) ELSE s.res.pos
        cnt == Min(Len(bytes), lim)
    IN IF f # 0 THEN [ret |-> -1, s |-> SetErrno(s, f)]
       ELSE IF ~s.res.wr THEN [ret |-> -1, s |-> SetErrno(s, EBADF)]
       ELSE IF cnt = 0 THEN [ret |-> 0, s |-> s]
       ELSE [ret |-> cnt,
             s |-> [s EXCEPT !.disk.data = Overlay(s.disk.data, off, SubSeq(bytes, 1, cnt)),
                             !.res.pos = off + cnt]]

(* The stream takes the orientation o of its first byte (-1) or wide (1) operation. *)
(* Mutant: every operation gives the stream its own orientation. *)
Oriented_Last(s, o) == [s EXCEPT !.res.orient = o]

Oriented(s, o) == IF s.res.orient = 0 THEN [s EXCEPT !.res.orient = o] ELSE s

fwide(s, mode) ==
    LET t == IF mode < 0 THEN Oriented(s, -1)
             ELSE IF mode > 0 THEN Oriented(s, 1)
             ELSE s
    IN [ret |-> t.res.orient, s |-> t]

setvbuf(s, mode, size, f) ==
    IF f # 0 THEN [ret |-> EOF, s |-> SetErrno(s, f)]
    ELSE [ret |-> 0, s |-> [s EXCEPT !.res.bufMode = mode]]

(* Output enters the stream's buffer; the buffering mode decides when it   *)
(* reaches the file.                                                       *)
PutBytes(s, bytes) ==
    LET base == IF s.res.append
                THEN Len(s.disk.data) + Len(s.res.wbuf)
                ELSE s.res.pos
        t == [s EXCEPT !.res.wbuf = s.res.wbuf \o bytes,
                       !.res.pos = base + Len(bytes),
                       !.res.pushback = <<>>]
    IN IF bytes = <<>> THEN s
       ELSE IF t.res.bufMode = "NONE" THEN FlushBuf(t)
       ELSE IF t.res.bufMode = "LINE" /\ (\E i \in 1..Len(bytes) : bytes[i] = NL)
            THEN FlushBuf(t)
       ELSE t

(* One character from the stream: eofv is the end-of-file value (EOF, WEOF). *)
GetChar(s, o, eofv, f) ==
    LET t == Oriented(FlushBuf(s), o)
    IN IF f # 0 THEN [ret |-> eofv, s |-> SetErrno(s, f)]
       ELSE IF ~s.res.rd THEN [ret |-> eofv, s |-> SetErrno(s, EBADF)]
       ELSE IF t.res.pushback # <<>>
            THEN [ret |-> Head(t.res.pushback),
                  s |-> [t EXCEPT !.res.pushback = <<>>, !.res.pos = t.res.pos + 1]]
       ELSE IF t.res.pos >= Len(t.disk.data)
            THEN [ret |-> eofv, s |-> t]
       ELSE [ret |-> t.disk.data[t.res.pos + 1],
             s |-> [t EXCEPT !.res.pos = t.res.pos + 1]]

(* Pushing back fails, without setting errno, for the end-of-file value    *)
(* and when the one guaranteed slot is taken.                              *)
UngetChar(s, c, o, eofv) ==
    LET t == Oriented(s, o)
    IN IF c = eofv \/ t.res.pushback # <<>> THEN [ret |-> eofv, s |-> t]
       ELSE [ret |-> c,
             s |-> [t EXCEPT !.res.pushback = <<c>>,
                             !.res.pos = Max(t.res.pos - 1, 0)]]

PutChar(s, c, o, eofv, f) ==
    IF f # 0 THEN [ret |-> eofv, s |-> SetErrno(s, f)]
    ELSE IF ~s.res.wr THEN [ret |-> eofv, s |-> SetErrno(s, EBADF)]
    ELSE [ret |-> c, s |-> PutBytes(Oriented(s, o), <<c>>)]

fgetc(s, f) == GetChar(s, -1, EOF, f)
ungetc(s, c) == UngetChar(s, c, -1, EOF)
fputc(s, c, f) == PutChar(s, c, -1, EOF, f)
fgetwc(s, weof, f) == GetChar(s, 1, weof, f)
ungetwc(s, wc, weof) == UngetChar(s, wc, 1, weof)
fputwc(s, wc, weof, f) == PutChar(s, wc, 1, weof, f)

(* fputs / fputws return some non-negative value okv on success. *)
PutString(s, str, o, okv, f) ==
    IF f # 0 THEN [ret |-> EOF, s |-> SetErrno(s, f)]
    ELSE IF ~s.res.wr THEN [ret |-> EOF, s |-> SetErrno(s, EBADF)]
    ELSE [ret |-> okv, s |-> PutBytes(Oriented(s, o), str)]

fputs(s, str, okv, f) == PutString(s, str, -1, okv, f)
fputws(s, str, okv, f) == PutString(s, str, 1, okv, f)

Threads == 1..MaxThreads

(* The lock of a stream is recursive: thread t can take it when it is free *)
(* or t's own.  flockfile waits until then; ftrylockfile returns non-zero  *)
(* instead of waiting; funlockfile, called by the owner, undoes one        *)
(* acquisition and frees the lock with the last.  Every other stream       *)
(* function takes the lock for the time of the call.                       *)
(* Mutant: the lock is there for every thread at any time. *)
LockAvailable_Always(lock, t) == lock.owner \in {0} \cup Threads

LockAvailable(lock, t) == lock.owner \in {0, t}

flockfile(lock, t) == [owner |-> t, count |-> lock.count + 1]

(* Mutant: the lock is taken whoever holds it. *)
ftrylockfile_Taken(lock, t) == [ret |-> 0, lock |-> flockfile(lock, t)]

ftrylockfile(lock, t) ==
    IF LockAvailable(lock, t) THEN [ret |-> 0, lock |-> flockfile(lock, t)]
    ELSE [ret |-> -1, lock |-> lock]

funlockfile(lock, t) ==
    IF lock.count > 1 THEN [lock EXCEPT !.count = @ - 1]
    ELSE [owner |-> 0, count |-> 0]

(* Formatted output of the expansion text: the number of characters written. *)
vfprintf(s, text, o, f) ==
    IF f # 0 THEN [ret |-> -1, s |-> SetErrno(s, f)]
    ELSE IF ~s.res.wr THEN [ret |-> -1, s |-> SetErrno(s, EBADF)]
    ELSE [ret |-> Len(text), s |-> PutBytes(Oriented(s, o), text)]

(* Formatted input of one character conversion: 1, or EOF when the input   *)
(* ends before it (errno is set only by a read error).                     *)
vfscanf(s, o, f) ==
    LET c == GetChar(s, o, EOF, f)
    IN IF c.ret = EOF THEN [ret |-> EOF, buf |-> <<>>, s |-> c.s]
       ELSE [ret |-> 1, buf |-> <<c.ret>>, s |-> c.s]

(* fread: whole elements only; at the end of the file the rest of a        *)
(* partial element is consumed.  lim: elements transferred at most.        *)
fread(s, size, nmemb, lim, f) ==
    LET t == FlushBuf(s)
        avail == IF t.res.pos < Len(t.disk.data) THEN Len(t.disk.data) - t.res.pos ELSE 0
        full == avail \div size
        want == Min(nmemb, lim)
    IN IF f # 0 THEN [ret |-> 0, buf |-> <<>>, s |-> SetErrno(s, f)]
       ELSE IF ~s.res.rd THEN [ret |-> 0, buf |-> <<>>, s |-> SetErrno(s, EBADF)]
       ELSE IF want <= full
            THEN [ret |-> want,
                  buf |-> SubSeq(t.disk.data, t.res.pos + 1, t.res.pos + want * size),
                  s |-> [t EXCEPT !.res.pos = t.res.pos + want * size]]
       ELSE [ret |-> full,
             buf |-> SubSeq(t.disk.data, t.res.pos + 1, t.res.pos + full * size),
             s |-> [t EXCEPT !.res.pos = t.res.pos + avail]]

fwrite(s, bytes, size, nmemb, lim, f) ==
    LET k == Min(nmemb, lim)
    IN IF f # 0 THEN [ret |-> 0, s |-> SetErrno(s, f)]
       ELSE IF ~s.res.wr THEN [ret |-> 0, s |-> SetErrno(s, EBADF)]
       ELSE [ret |-> k, s |-> PutBytes(s, SubSeq(bytes, 1, k * size))]

-----------------------------------------------------------------------------
(* Outcomes of a call.                                                     *)

(* out: "return", "raise" (kind, code: the exception and the error code it *)
(* carries) or "assert" (an assertion failed); ret: the value returned;    *)
(* buf: what the call stored in the caller's buffer or string; n: native   *)
(* calls issued; s: the machine state it leaves.                           *)
Return(s, v, n) ==
    [out |-> "return", kind |-> "none", code |-> 0, ret |-> v, buf |-> <<>>,
     n |-> n, s |-> s]
ReturnBuf(s, v, b, n) ==
    [out |-> "return", kind |-> "none", code |-> 0, ret |-> v, buf |-> b,
     n |-> n, s |-> s]
Throw(s, kind, n) ==
    [out |-> "raise", kind |-> kind, code |-> s.errno, ret |-> 0, buf |-> <<>>,
     n |-> n, s |-> s]
AssertionFailure(s, n) ==
    [out |-> "assert", kind |-> "none", code |-> 0, ret |-> 0, buf |-> <<>>,
     n |-> n, s |-> s]

B2I(b) == IF b THEN 1 ELSE 0

(* A write that returned: buf is the content of the buffer the caller gave. *)
Given(R, bytes) == IF R.out = "return" THEN [R EXCEPT !.buf = bytes] ELSE R

(* The machine a call starts on.  errno between calls belongs to the      *)
(* caller: every method that reads errno clears it on entry, so a call     *)
(* starts with errno = 0 and last.errno keeps the value the call leaves.   *)
Machine == [res |-> res, disk |-> disk, errno |-> 0]

This ==
    [m_eFileType |-> m_eFileType, m_eFileAccessMode |-> m_eFileAccessMode,
     m_pkFilePointer |-> m_pkFilePointer, m_siFileDescriptor |-> m_siFileDescriptor]

(* assert(0 == errno) on the path that returns. *)
AssertNoErrno(R) ==
    IF R.out = "return" /\ R.s.errno # 0 THEN AssertionFailure(R.s, R.n) ELSE R

-----------------------------------------------------------------------------
(* CFile: construction and destruction.  The constructor's outcome also    *)
(* carries the value left in m_pkFilePointer.                              *)

(* Mutant: a failed fopen is not raised, the object lives on a null stream. *)
CFile_CFile_Unchecked(s0, eFileType, eFileAccessMode, flt) ==
    LET s == SetErrno(s0, 0)
        r == fopen(s, FILE_ACCESS_MODE_STRINGS(eFileAccessMode, eFileType), FaultAt(flt, 1))
    IN [R |-> Return(r.s, 0, 1), fp |-> r.ret]

CFile_CFile(s0, eFileType, eFileAccessMode, flt) ==
    LET s == SetErrno(s0, 0)
        r == fopen(s, FILE_ACCESS_MODE_STRINGS(eFileAccessMode, eFileType), FaultAt(flt, 1))
    IN IF r.ret = NULLPTR
       THEN [R |-> Throw(r.s, "file_open_error", 1), fp |-> r.ret]
       ELSE [R |-> AssertNoErrno(Return(r.s, 0, 1)), fp |-> r.ret]

CFile_Destructor(this, s0, flt) ==
    LET s == SetErrno(s0, 0)
        r == fclose(s, FaultAt(flt, 1))
    IN IF this.m_pkFilePointer = NULLPTR
       THEN [R |-> AssertionFailure(s, 0), fp |-> this.m_pkFilePointer]
       ELSE IF r.ret < 0
       THEN [R |-> Throw(r.s, "file_close_error", 1), fp |-> this.m_pkFilePointer]
       ELSE [R |-> AssertNoErrno(Return(r.s, 0, 1)), fp |-> NULLPTR]

(* PosixFile: construction and destruction; fd is the value left in        *)
(* m_siFileDescriptor.                                                     *)

PosixFile_PosixFile(s0, siOpenFlags, flt) ==
    LET s == SetErrno(s0, 0)
        r == open(s, siOpenFlags, FaultAt(flt, 1))
    IN IF r.ret < 0
       THEN [R |-> Throw(r.s, "file_open_error", 1), fd |-> r.ret]
       ELSE [R |-> AssertNoErrno(Return(r.s, 0, 1)), fd |-> r.ret]

PosixFile_Destructor(this, s0, flt) ==
    LET s == SetErrno(s0, 0)
        r == close(s, FaultAt(flt, 1))
    IN IF this.m_siFileDescriptor < 0 \/ this.m_siFileDescriptor \in {0, 1, 2}
       THEN [R |-> AssertionFailure(s, 0), fd |-> this.m_siFileDescriptor]
       ELSE IF r.ret < 0
       THEN [R |-> Throw(r.s, "file_close_error", 1), fd |-> this.m_siFileDescriptor]
       ELSE [R |-> AssertNoErrno(Return(r.s, 0, 1)), fd |-> -1]

-----------------------------------------------------------------------------
(* CFile: status, flushing, positioning and length.                        *)

CFile_GetFileBlockSize(this, s0, flt) ==
    LET s == SetErrno(s0, 0)
        r == fstat(s, FaultAt(flt, 1))
    IN IF this.m_pkFilePointer = NULLPTR THEN AssertionFailure(s, 0)
       ELSE IF r.ret < 0 THEN Throw(r.s, "file_status_error", 1)
       ELSE AssertNoErrno(Return(r.s, r.blksize, 1))

CFile_Flush(this, s0, flt) ==
    LET s == SetErrno(s0, 0)
        r == fflush(s, FaultAt(flt, 1))
    IN IF this.m_pkFilePointer = NULLPTR THEN AssertionFailure(s, 0)
       ELSE IF r.ret < 0 THEN Throw(r.s, "file_flush_error", 1)
       ELSE AssertNoErrno(Return(r.s, 0, 1))

CFile_GetFilePosition(this, s0, flt) ==
    LET s == SetErrno(s0, 0)
        r == ftello(s, FaultAt(flt, 1))
    IN IF this.m_pkFilePointer = NULLPTR THEN AssertionFailure(s, 0)
       ELSE IF r.ret < 0 THEN Throw(r.s, "file_tell_error", 1)
       ELSE AssertNoErrno(Return(r.s, r.ret, 1))

CFile_SetFilePosition(this, s0, ulPosition, flt) ==
    LET s == SetErrno(s0, 0)
        r == fseeko(s, ulPosition, "SEEK_SET", FaultAt(flt, 1))
    IN IF this.m_pkFilePointer = NULLPTR THEN AssertionFailure(s, 0)
       ELSE IF r.ret < 0 THEN Throw(r.s, "file_seek_error", 1)
       ELSE AssertNoErrno(Return(r.s, 0, 1))

(* Mutant: SeekSet seeks from the current position. *)
CFile_SeekSet_FromCurrent(this, s0, slOffset, flt) ==
    LET s == SetErrno(s0, 0)
        r == fseeko(s, slOffset, "SEEK_CUR", FaultAt(flt, 1))
    IN IF this.m_pkFilePointer = NULLPTR THEN AssertionFailure(s, 0)
       ELSE IF r.ret < 0 THEN Throw(r.s, "file_seek_error", 1)
       ELSE Return(r.s, 0, 1)

CFile_SeekSet(this, s0, slOffset, flt) ==
    LET s == SetErrno(s0, 0)
        r == fseeko(s, slOffset, "SEEK_SET", FaultAt(flt, 1))
    IN IF this.m_pkFilePointer = NULLPTR THEN AssertionFailure(s, 0)
       ELSE IF r.ret < 0 THEN Throw(r.s, "file_seek_error", 1)
       ELSE Return(r.s, 0, 1)

CFile_SeekCurrent(this, s0, slOffset, flt) ==
    LET s == SetErrno(s0, 0)
        r == fseeko(s, slOffset, "SEEK_CUR", FaultAt(flt, 1))
    IN IF this.m_pkFilePointer = NULLPTR THEN AssertionFailure(s, 0)
       ELSE IF r.ret < 0 THEN Throw(r.s, "file_seek_error", 1)
       ELSE Return(r.s, 0, 1)

CFile_SeekEnd(this, s0, slOffset, flt) ==
    LET s == SetErrno(s0, 0)
        r == fseeko(s, slOffset, "SEEK_END", FaultAt(flt, 1))
    IN IF this.m_pkFilePointer = NULLPTR THEN AssertionFailure(s, 0)
       ELSE IF r.ret < 0 THEN Throw(r.s, "file_seek_error", 1)
       ELSE Return(r.s, 0, 1)

(* Rewind seeks to 0, then clearerr clears the stream's end-of-file and    *)
(* error flags, which no method of the handle reads.                       *)
(* Mutant: the seek is to the current position. *)
CFile_Rewind_Stays(this, s0, flt) ==
    LET s == SetErrno(s0, 0)
        r == fseeko(s, 0, "SEEK_CUR", FaultAt(flt, 1))
    IN IF this.m_pkFilePointer = NULLPTR THEN AssertionFailure(s, 0)
       ELSE IF r.ret < 0 THEN Throw(r.s, "file_seek_error", 1)
       ELSE AssertNoErrno(Return(r.s, 0, 1))

CFile_Rewind(this, s0, flt) ==
    LET s == SetErrno(s0, 0)
        r == fseeko(s, 0, "SEEK_SET", FaultAt(flt, 1))
    IN IF this.m_pkFilePointer = NULLPTR THEN AssertionFailure(s, 0)
       ELSE IF r.ret < 0 THEN Throw(r.s, "file_seek_error", 1)
       ELSE AssertNoErrno(Return(r.s, 0, 1))

CFile_GetFileLength(this, s0, flt) ==
    LET s == SetErrno(s0, 0)
        r == fstat(s, FaultAt(flt, 1))
    IN IF this.m_pkFilePointer = NULLPTR THEN AssertionFailure(s, 0)
       ELSE IF r.ret < 0 THEN Throw(r.s, "file_status_error", 1)
       ELSE AssertNoErrno(Return(r.s, r.size, 1))

CFile_SetFileLength(this, s0, ulLength, flt) ==
    LET s == SetErrno(s0, 0)
        r == ftruncate(s, ulLength, FaultAt(flt, 1))
    IN IF this.m_pkFilePointer = NULLPTR THEN AssertionFailure(s, 0)
       ELSE IF r.ret < 0 THEN Throw(r.s, "file_truncation_error", 1)
       ELSE AssertNoErrno(Return(r.s, 0, 1))

(* GetFilePosition() >= GetFileLength(): an outcome of either call other   *)
(* than a return propagates.                                               *)
CFile_EndOfFile(this, s0, flt) ==
    IF this.m_pkFilePointer = NULLPTR THEN AssertionFailure(s0, 0)
    ELSE Bind(CFile_GetFilePosition(this, s0, flt), LAMBDA p :
         IF p.out # "return" THEN p
         ELSE Bind(CFile_GetFileLength(this, p.s, Shift(flt, p.n)), LAMBDA l :
              IF l.out # "return" THEN [l EXCEPT !.n = p.n + l.n]
              ELSE Return(l.s, B2I(p.ret >= l.ret), p.n + l.n)))

(* Mutant: the subtraction without the comparison that guards it. *)
Remaining_Unguarded(ulPosition, ulLength) == (ulLength - ulPosition) % UintModulus

(* ulLength - ulPosition is a subtraction of uint64_t values. *)
Remaining(ulPosition, ulLength) ==
    IF ulPosition < ulLength THEN (ulLength - ulPosition) % UintModulus ELSE 0

CFile_GetBytesRemaining(this, s0, flt) ==
    IF this.m_pkFilePointer = NULLPTR THEN AssertionFailure(s0, 0)
    ELSE Bind(CFile_GetFilePosition(this, s0, flt), LAMBDA p :
         IF p.out # "return" THEN p
         ELSE Bind(CFile_GetFileLength(this, p.s, Shift(flt, p.n)), LAMBDA l :
              IF l.out # "return" THEN [l EXCEPT !.n = p.n + l.n]
              ELSE Return(l.s, Remaining(p.ret, l.ret), p.n + l.n)))

-----------------------------------------------------------------------------
(* CFile: buffering and character orientation.                             *)

(* File locking: lock is the stream's lock, t the calling thread.  The     *)
(* result of LockFile is the lock once flockfile has returned.             *)
CFile_TryLockFile(this, lock, t) ==
    LET r == ftrylockfile(lock, t)
    IN [ret |-> 0 = r.ret, lock |-> r.lock]

CFile_LockFile(this, lock, t) == flockfile(lock, t)

CFile_UnlockFile(this, lock, t) == funlockfile(lock, t)

RECOMMENDED_FILE_BLOCK_SIZE == 131072

CFile_SetBuffer(this, s, eBufferMode, ulBufferSize, flt) ==
    LET r == setvbuf(s, eBufferMode, ulBufferSize, FaultAt(flt, 1))
    IN IF this.m_pkFilePointer = NULLPTR THEN AssertionFailure(s, 0)
       ELSE IF eBufferMode \notin {"NONE", "LINE", "FULL"} THEN AssertionFailure(s, 0)
       ELSE Return(r.s, B2I(0 = r.ret), 1)

CFile_SetOptimalBuffer(this, s0, flt) ==
    Bind(CFile_GetFileBlockSize(this, s0, flt), LAMBDA b :
        IF b.out # "return" THEN b
        ELSE Bind(CFile_SetBuffer(this, b.s, "FULL",
                                  Max(b.ret, RECOMMENDED_FILE_BLOCK_SIZE), Shift(flt, b.n)),
                  LAMBDA r : [r EXCEPT !.n = b.n + r.n]))

CFile_SetCharacterMode(this, s, eDesiredCharacterMode) ==
    LET r == fwide(s, eDesiredCharacterMode)
        siActualCharacterMode == r.ret
    IN IF this.m_pkFilePointer = NULLPTR THEN AssertionFailure(s, 0)
       ELSE IF ~IsTextFile(this) THEN AssertionFailure(s, 0)
       ELSE IF eDesiredCharacterMode \notin {-1, 0, 1} THEN AssertionFailure(s, 0)
       ELSE IF siActualCharacterMode < 0 THEN Return(r.s, -1, 1)
       ELSE IF siActualCharacterMode > 0 THEN Return(r.s, 1, 1)
       ELSE Return(r.s, 0, 1)

(* Mutant: the query asks for the wide orientation. *)
CFile_GetCharacterMode_Wide(this, s) ==
    IF this.m_pkFilePointer = NULLPTR THEN AssertionFailure(s, 0)
    ELSE IF ~IsTextFile(this) THEN AssertionFailure(s, 0)
    ELSE CFile_SetCharacterMode(this, s, 1)

CFile_GetCharacterMode(this, s) ==
    IF this.m_pkFilePointer = NULLPTR THEN AssertionFailure(s, 0)
    ELSE IF ~IsTextFile(this) THEN AssertionFailure(s, 0)
    ELSE CFile_SetCharacterMode(this, s, 0)

-----------------------------------------------------------------------------
(* CFile: unformatted character input and output.                          *)

CFile_GetByteCharacter(this, s0, flt) ==
    LET s == SetErrno(s0, 0)
        r == fgetc(s, FaultAt(flt, 1))
        siCharacter == r.ret
    IN IF this.m_pkFilePointer = NULLPTR THEN AssertionFailure(s, 0)
       ELSE IF ~IsTextFile(this) THEN AssertionFailure(s, 0)
       ELSE IF ~(IsReadOnly(this) \/ IsReadWrite(this)) THEN AssertionFailure(s, 0)
       ELSE IF siCharacter < 0 /\ 0 # r.s.errno THEN Throw(r.s, "file_read_error", 1)
       ELSE AssertNoErrno(Return(r.s, siCharacter, 1))

CFile_UngetByteCharacter(this, s0, siCharacter) ==
    LET s == SetErrno(s0, 0)
        r == ungetc(s, siCharacter)
    IN IF this.m_pkFilePointer = NULLPTR THEN AssertionFailure(s, 0)
       ELSE IF ~IsTextFile(this) THEN AssertionFailure(s, 0)
       ELSE IF ~(IsReadOnly(this) \/ IsReadWrite(this)) THEN AssertionFailure(s, 0)
       ELSE IF r.ret < 0 THEN Throw(r.s, "file_read_error", 1)
       ELSE AssertNoErrno(Return(r.s, 0, 1))

CFile_PutByteCharacter(this, s0, siCharacter, flt) ==
    LET s == SetErrno(s0, 0)
        r == fputc(s, siCharacter, FaultAt(flt, 1))
    IN IF this.m_pkFilePointer = NULLPTR THEN AssertionFailure(s, 0)
       ELSE IF ~IsTextFile(this) THEN AssertionFailure(s, 0)
       ELSE IF ~(IsWriteOnly(this) \/ IsReadWrite(this)) THEN AssertionFailure(s, 0)
       ELSE IF r.ret < 0 THEN Throw(r.s, "file_write_error", 1)
       ELSE AssertNoErrno(Return(r.s, 0, 1))

(* weof: the platform's WEOF; a wint_t is compared with 0 as the platform's *)
(* type compares.                                                          *)
CFile_GetWideCharacter(this, s0, weof, flt) ==
    LET s == SetErrno(s0, 0)
        r == fgetwc(s, weof, FaultAt(flt, 1))
        wcCharacter == r.ret
    IN IF this.m_pkFilePointer = NULLPTR THEN AssertionFailure(s, 0)
       ELSE IF ~IsTextFile(this) THEN AssertionFailure(s, 0)
       ELSE IF ~(IsReadOnly(this) \/ IsReadWrite(this)) THEN AssertionFailure(s, 0)
       ELSE IF wcCharacter < 0 /\ 0 # r.s.errno THEN Throw(r.s, "file_read_error", 1)
       ELSE AssertNoErrno(Return(r.s, wcCharacter, 1))

CFile_UngetWideCharacter(this, s0, wcCharacter, weof) ==
    LET s == SetErrno(s0, 0)
        r == ungetwc(s, wcCharacter, weof)
    IN IF this.m_pkFilePointer = NULLPTR THEN AssertionFailure(s, 0)
       ELSE IF ~IsTextFile(this) THEN AssertionFailure(s, 0)
       ELSE IF ~(IsReadOnly(this) \/ IsReadWrite(this)) THEN AssertionFailure(s, 0)
       ELSE IF r.ret < 0 THEN Throw(r.s, "file_read_error", 1)
       ELSE AssertNoErrno(Return(r.s, 0, 1))

CFile_PutWideCharacter(this, s0, wcCharacter, weof, flt) ==
    LET s == SetErrno(s0, 0)
        r == fputwc(s, wcCharacter, weof, FaultAt(flt, 1))
    IN IF this.m_pkFilePointer = NULLPTR THEN AssertionFailure(s, 0)
       ELSE IF ~IsTextFile(this) THEN AssertionFailure(s, 0)
       ELSE IF ~(IsWriteOnly(this) \/ IsReadWrite(this)) THEN AssertionFailure(s, 0)
       ELSE IF r.ret < 0 THEN Throw(r.s, "file_write_error", 1)
       ELSE AssertNoErrno(Return(r.s, 0, 1))

-----------------------------------------------------------------------------
(* CFile: unformatted string and line input and output.  The readers'     *)
(* loops run on (result string, chunk buffer); n counts the native calls   *)
(* made so far.                                                            *)

(* Mutant: the line readers put the terminator in the buffer at the end of the file too. *)
Flushed_Always(rkString, acStringBuffer, keepLine, terminated) ==
    rkString \o acStringBuffer \o (IF keepLine THEN <<NL>> ELSE <<>>)

Flushed(rkString, acStringBuffer, keepLine, terminated) ==
    rkString \o acStringBuffer \o (IF keepLine /\ terminated THEN <<NL>> ELSE <<>>)

(* One character of the line, byte or wide. *)
GetCharacter(this, s, wide, weof, flt) ==
    IF wide THEN CFile_GetWideCharacter(this, s, weof, flt)
    ELSE CFile_GetByteCharacter(this, s, flt)

RECURSIVE ReadLineLoop(_, _, _, _, _, _, _, _, _)
(* Mutant: a full chunk buffer is appended to the result string and not emptied. *)
ReadLineLoop_NotEmptied(this, s, wide, weof, keepLine, bufferLength, rkString, acStringBuffer, fn) ==
    Bind(GetCharacter(this, s, wide, weof, Shift(fn.flt, fn.n)), LAMBDA c :
        IF c.out # "return" THEN [c EXCEPT !.n = fn.n + c.n]
        ELSE IF c.ret = (IF wide THEN weof ELSE BYTE_END_OF_FILE) \/ c.ret = NL
             THEN IF keepLine /\ c.ret = NL /\ ~(Len(acStringBuffer) < bufferLength)
                  THEN AssertionFailure(c.s, fn.n + c.n)
                  ELSE ReturnBuf(c.s, 0,
                                 Flushed(rkString, acStringBuffer, keepLine, c.ret = NL),
                                 fn.n + c.n)
        ELSE IF ~(Len(acStringBuffer) < bufferLength) THEN AssertionFailure(c.s, fn.n + c.n)
        ELSE IF Len(acStringBuffer) + 1 >= bufferLength
             THEN ReadLineLoop(this, c.s, wide, weof, keepLine, bufferLength,
                               rkString \o Append(acStringBuffer, c.ret),
                               Append(acStringBuffer, c.ret),
                               [fn EXCEPT !.n = fn.n + c.n])
        ELSE ReadLineLoop(this, c.s, wide, weof, keepLine, bufferLength,
                          rkString, Append(acStringBuffer, c.ret),
                          [fn EXCEPT !.n = fn.n + c.n]))

(* Mutant: a full chunk buffer replaces the result string instead of being appended to it. *)
ReadLineLoop_Replaces(this, s, wide, weof, keepLine, bufferLength, rkString, acStringBuffer, fn) ==
    Bind(GetCharacter(this, s, wide, weof, Shift(fn.flt, fn.n)), LAMBDA c :
        IF c.out # "return" THEN [c EXCEPT !.n = fn.n + c.n]
        ELSE IF c.ret = (IF wide THEN weof ELSE BYTE_END_OF_FILE) \/ c.ret = NL
             THEN IF keepLine /\ c.ret = NL /\ ~(Len(acStringBuffer) < bufferLength)
                  THEN AssertionFailure(c.s, fn.n + c.n)
                  ELSE ReturnBuf(c.s, 0,
                                 Flushed(rkString, acStringBuffer, keepLine, c.ret = NL),
                                 fn.n + c.n)
        ELSE IF ~(Len(acStringBuffer) < bufferLength) THEN AssertionFailure(c.s, fn.n + c.n)
        ELSE IF Len(acStringBuffer) + 1 >= bufferLength
             THEN ReadLineLoop(this, c.s, wide, weof, keepLine, bufferLength,
                               Append(acStringBuffer, c.ret), <<>>,
                               [fn EXCEPT !.n = fn.n + c.n])
        ELSE ReadLineLoop(this, c.s, wide, weof, keepLine, bufferLength,
                          rkString, Append(acStringBuffer, c.ret),
                          [fn EXCEPT !.n = fn.n + c.n]))

ReadLineLoop(this, s, wide, weof, keepLine, bufferLength, rkString, acStringBuffer, fn) ==
    Bind(GetCharacter(this, s, wide, weof, Shift(fn.flt, fn.n)), LAMBDA c :
        IF c.out # "return" THEN [c EXCEPT !.n = fn.n + c.n]
        ELSE IF c.ret = (IF wide THEN weof ELSE BYTE_END_OF_FILE) \/ c.ret = NL
             THEN IF keepLine /\ c.ret = NL /\ ~(Len(acStringBuffer) < bufferLength)
                  THEN AssertionFailure(c.s, fn.n + c.n)
                  ELSE ReturnBuf(c.s, 0,
                                 Flushed(rkString, acStringBuffer, keepLine, c.ret = NL),
                                 fn.n + c.n)
        ELSE IF ~(Len(acStringBuffer) < bufferLength) THEN AssertionFailure(c.s, fn.n + c.n)
        ELSE IF Len(acStringBuffer) + 1 >= bufferLength
             THEN ReadLineLoop(this, c.s, wide, weof, keepLine, bufferLength,
                               rkString \o Append(acStringBuffer, c.ret), <<>>,
                               [fn EXCEPT !.n = fn.n + c.n])
        ELSE ReadLineLoop(this, c.s, wide, weof, keepLine, bufferLength,
                          rkString, Append(acStringBuffer, c.ret),
                          [fn EXCEPT !.n = fn.n + c.n]))

ReadLine(this, s, wide, weof, keepLine, bufferLength, flt) ==
    IF this.m_pkFilePointer = NULLPTR THEN AssertionFailure(s, 0)
    ELSE IF ~IsTextFile(this) THEN AssertionFailure(s, 0)
    ELSE IF ~(IsReadOnly(this) \/ IsReadWrite(this)) THEN AssertionFailure(s, 0)
    ELSE ReadLineLoop(this, s, wide, weof, keepLine, bufferLength, <<>>, <<>>,
                      [flt |-> flt, n |-> 0])

CFile_GetByteString(this, s, flt) ==
    ReadLine(this, s, FALSE, EOF, FALSE, BYTE_STRING_BUFFER_LENGTH, flt)
CFile_GetWideString(this, s, weof, flt) ==
    ReadLine(this, s, TRUE, weof, FALSE, WIDE_STRING_BUFFER_LENGTH, flt)
CFile_GetByteLine(this, s, flt) ==
    ReadLine(this, s, FALSE, EOF, TRUE, BYTE_STRING_BUFFER_LENGTH, flt)
CFile_GetWideLine(this, s, weof, flt) ==
    ReadLine(this, s, TRUE, weof, TRUE, WIDE_STRING_BUFFER_LENGTH, flt)

(* acString is "null" or "string", str the string's characters. *)
CFile_PutByteString(this, s0, acString, str, okv, flt) ==
    LET s == SetErrno(s0, 0)
        r == fputs(s, str, okv, FaultAt(flt, 1))
        siCharactersWritten == r.ret
    IN IF this.m_pkFilePointer = NULLPTR THEN AssertionFailure(s, 0)
       ELSE IF ~IsTextFile(this) THEN AssertionFailure(s, 0)
       ELSE IF ~(IsWriteOnly(this) \/ IsReadWrite(this)) THEN AssertionFailure(s, 0)
       ELSE IF acString = "null" THEN AssertionFailure(s, 0)
       ELSE IF siCharactersWritten < 0 THEN Throw(r.s, "file_write_error", 1)
       ELSE AssertNoErrno(Return(r.s, siCharactersWritten, 1))

CFile_PutWideString(this, s0, awcString, str, okv, flt) ==
    LET s == SetErrno(s0, 0)
        r == fputws(s, str, okv, FaultAt(flt, 1))
        siCharactersWritten == r.ret
    IN IF this.m_pkFilePointer = NULLPTR THEN AssertionFailure(s, 0)
       ELSE IF ~IsTextFile(this) THEN AssertionFailure(s, 0)
       ELSE IF ~(IsWriteOnly(this) \/ IsReadWrite(this)) THEN AssertionFailure(s, 0)
       ELSE IF awcString = "null" THEN AssertionFailure(s, 0)
       ELSE IF siCharactersWritten < 0 THEN Throw(r.s, "file_write_error", 1)
       ELSE AssertNoErrno(Return(r.s, siCharactersWritten, 1))

CFile_PutByteLine(this, s, acString, str, okv, flt) ==
    IF this.m_pkFilePointer = NULLPTR THEN AssertionFailure(s, 0)
    ELSE IF ~IsTextFile(this) THEN AssertionFailure(s, 0)
    ELSE IF ~(IsWriteOnly(this) \/ IsReadWrite(this)) THEN AssertionFailure(s, 0)
    ELSE IF acString = "null" THEN AssertionFailure(s, 0)
    ELSE Bind(CFile_PutByteString(this, s, acString, str, okv, flt), LAMBDA w :
         IF w.out # "return" THEN w
         ELSE Bind(CFile_PutByteCharacter(this, w.s, NL, Shift(flt, w.n)), LAMBDA c :
              IF c.out # "return" THEN [c EXCEPT !.n = w.n + c.n]
              ELSE Return(c.s, w.ret + 1, w.n + c.n)))

CFile_PutWideLine(this, s, awcString, str, okv, weof, flt) ==
    IF this.m_pkFilePointer = NULLPTR THEN AssertionFailure(s, 0)
    ELSE IF ~IsTextFile(this) THEN AssertionFailure(s, 0)
    ELSE IF ~(IsWriteOnly(this) \/ IsReadWrite(this)) THEN AssertionFailure(s, 0)
    ELSE IF awcString = "null" THEN AssertionFailure(s, 0)
    ELSE Bind(CFile_PutWideString(this, s, awcString, str, okv, flt), LAMBDA w :
         IF w.out # "return" THEN w
         ELSE Bind(CFile_PutWideCharacter(this, w.s, NL, weof, Shift(flt, w.n)), LAMBDA c :
              IF c.out # "return" THEN [c EXCEPT !.n = w.n + c.n]
              ELSE Return(c.s, w.ret + 1, w.n + c.n)))

-----------------------------------------------------------------------------
(* CFile: formatted input and output.  acFormat is "null" or a format;     *)
(* text is what the format and its arguments expand to.                    *)

FormattedPrint(this, s0, acFormat, text, o, flt) ==
    LET s == SetErrno(s0, 0)
        r == vfprintf(s, text, o, FaultAt(flt, 1))
        siResult == r.ret
    IN IF this.m_pkFilePointer = NULLPTR THEN AssertionFailure(s, 0)
       ELSE IF ~IsTextFile(this) THEN AssertionFailure(s, 0)
       ELSE IF ~(IsWriteOnly(this) \/ IsReadWrite(this)) THEN AssertionFailure(s, 0)
       ELSE IF acFormat = "null" THEN AssertionFailure(s, 0)
       ELSE IF siResult < 0 THEN Throw(r.s, "file_write_error", 1)
       ELSE AssertNoErrno(Return(r.s, siResult, 1))

FormattedScan(this, s0, acFormat, o, flt) ==
    LET s == SetErrno(s0, 0)
        r == vfscanf(s, o, FaultAt(flt, 1))
        siResult == r.ret
    IN IF this.m_pkFilePointer = NULLPTR THEN AssertionFailure(s, 0)
       ELSE IF ~IsTextFile(this) THEN AssertionFailure(s, 0)
       ELSE IF ~(IsReadOnly(this) \/ IsReadWrite(this)) THEN AssertionFailure(s, 0)
       ELSE IF acFormat = "null" THEN AssertionFailure(s, 0)
       ELSE IF siResult < 0 THEN Throw(r.s, "file_read_error", 1)
       ELSE AssertNoErrno(ReturnBuf(r.s, siResult, r.buf, 1))

CFile_PrintByte(this, s, acFormat, text, flt) == FormattedPrint(this, s, acFormat, text, -1, flt)
CFile_ScanByte(this, s, acFormat, flt) == FormattedScan(this, s, acFormat, -1, flt)
CFile_PrintWide(this, s, awcFormat, text, flt) == FormattedPrint(this, s, awcFormat, text, 1, flt)
CFile_ScanWide(this, s, awcFormat, flt) == FormattedScan(this, s, awcFormat, 1, flt)

-----------------------------------------------------------------------------
(* CFile: binary block input and output.  avBuffer is "null" or "buffer";  *)
(* lim is what one native call transfers at most, in elements.             *)

(* The two assertions that close ReadElements: assert(0 == errno), then    *)
(* assert(... || EndOfFile()), which calls EndOfFile once more.            *)
ReadElementsEnd(this, s, ulTotalElementsRead, got, fn) ==
    IF s.errno # 0 THEN AssertionFailure(s, fn.n)
    ELSE Bind(CFile_EndOfFile(this, s, Shift(fn.flt, fn.n)), LAMBDA a :
         IF a.out # "return" THEN [a EXCEPT !.n = fn.n + a.n]
         ELSE IF a.ret # 1 THEN AssertionFailure(a.s, fn.n + a.n)
         ELSE ReturnBuf(a.s, ulTotalElementsRead, got, fn.n + a.n))

RECURSIVE ReadElementsLoop(_, _, _, _, _, _, _, _)
(* Mutant: ulTotalElementsRead = ulElementsActuallyRead, not +=. *)
ReadElementsLoop_Assigned(this, s, ulElementSize, ulTotalElementsToRead, ulTotalElementsRead, got, lim, fn) ==
    IF ~(ulTotalElementsRead < ulTotalElementsToRead)
    THEN AssertNoErrno(ReturnBuf(s, ulTotalElementsRead, got, fn.n))
    ELSE Bind(fread(s, ulElementSize, ulTotalElementsToRead - ulTotalElementsRead, lim,
                    FaultAt(fn.flt, fn.n + 1)), LAMBDA r :
         IF ~(r.ret < ulTotalElementsToRead - ulTotalElementsRead)
         THEN ReadElementsLoop(this, r.s, ulElementSize, ulTotalElementsToRead,
                               r.ret, got \o r.buf, lim,
                               [fn EXCEPT !.n = fn.n + 1])
         ELSE IF 0 # r.s.errno THEN Throw(r.s, "file_read_error", fn.n + 1)
         ELSE Bind(CFile_EndOfFile(this, r.s, Shift(fn.flt, fn.n + 1)), LAMBDA e :
              IF e.out # "return" THEN [e EXCEPT !.n = fn.n + 1 + e.n]
              ELSE IF e.ret = 1
                   THEN ReadElementsEnd(this, e.s, r.ret,
                                        got \o r.buf, [fn EXCEPT !.n = fn.n + 1 + e.n])
              ELSE ReadElementsLoop(this, e.s, ulElementSize, ulTotalElementsToRead,
                                    r.ret, got \o r.buf, lim,
                                    [fn EXCEPT !.n = fn.n + 1 + e.n])))

ReadElementsLoop(this, s, ulElementSize, ulTotalElementsToRead, ulTotalElementsRead, got, lim, fn) ==
    IF ~(ulTotalElementsRead < ulTotalElementsToRead)
    THEN AssertNoErrno(ReturnBuf(s, ulTotalElementsRead, got, fn.n))
    ELSE Bind(fread(s, ulElementSize, ulTotalElementsToRead - ulTotalElementsRead, lim,
                    FaultAt(fn.flt, fn.n + 1)), LAMBDA r :
         IF ~(r.ret < ulTotalElementsToRead - ulTotalElementsRead)
         THEN ReadElementsLoop(this, r.s, ulElementSize, ulTotalElementsToRead,
                               ulTotalElementsRead + r.ret, got \o r.buf, lim,
                               [fn EXCEPT !.n = fn.n + 1])
         ELSE IF 0 # r.s.errno THEN Throw(r.s, "file_read_error", fn.n + 1)
         ELSE Bind(CFile_EndOfFile(this, r.s, Shift(fn.flt, fn.n + 1)), LAMBDA e :
              IF e.out # "return" THEN [e EXCEPT !.n = fn.n + 1 + e.n]
              ELSE IF e.ret = 1
                   THEN ReadElementsEnd(this, e.s, ulTotalElementsRead + r.ret,
                                        got \o r.buf, [fn EXCEPT !.n = fn.n + 1 + e.n])
              ELSE ReadElementsLoop(this, e.s, ulElementSize, ulTotalElementsToRead,
                                    ulTotalElementsRead + r.ret, got \o r.buf, lim,
                                    [fn EXCEPT !.n = fn.n + 1 + e.n])))

CFile_ReadElements(this, s0, avBuffer, ulElementSize, ulTotalElementsToRead, lim, flt) ==
    LET s == SetErrno(s0, 0)
    IN IF this.m_pkFilePointer = NULLPTR THEN AssertionFailure(s, 0)
       ELSE IF ~IsBinaryFile(this) THEN AssertionFailure(s, 0)
       ELSE IF ~(IsReadOnly(this) \/ IsReadWrite(this)) THEN AssertionFailure(s, 0)
       ELSE IF avBuffer = "null" THEN AssertionFailure(s, 0)
       ELSE IF ~(ulElementSize > 0) THEN AssertionFailure(s, 0)
       ELSE IF ~(ulTotalElementsToRead > 0) THEN AssertionFailure(s, 0)
       ELSE ReadElementsLoop(this, s, ulElementSize, ulTotalElementsToRead, 0,
                             <<>>, lim, [flt |-> flt, n |-> 0])

(* One pass through the body of the loop of ReadElements: fread, then, if  *)
(* it was short, the test of errno and EndOfFile().  pc: "loop" (the loop  *)
(* goes on), "end" (break) or "done" (an exception leaves the call, R);    *)
(* add: what fread transferred; R.s: the machine state, R.n: native calls. *)
ReadElementsIteration(this, s, ulElementSize, ulTotalElementsToRead, ulTotalElementsRead, lim, flt) ==
    Bind(fread(s, ulElementSize, ulTotalElementsToRead - ulTotalElementsRead, lim,
               FaultAt(flt, 1)), LAMBDA r :
        IF ~(r.ret < ulTotalElementsToRead - ulTotalElementsRead)
        THEN [pc |-> "loop", add |-> r, R |-> Return(r.s, 0, 1)]
        ELSE IF 0 # r.s.errno
             THEN [pc |-> "done", add |-> r, R |-> Throw(r.s, "file_read_error", 1)]
        ELSE Bind(CFile_EndOfFile(this, r.s, Shift(flt, 1)), LAMBDA e :
             [pc |-> IF e.out # "return" THEN "done"
                     ELSE IF e.ret = 1 THEN "end" ELSE "loop",
              add |-> r,
              R |-> [e EXCEPT !.n = 1 + e.n]]))

RECURSIVE WriteElementsLoop(_, _, _, _, _, _, _, _)
(* Mutant: ulTotalElementsWritten += ulElementsToActuallyWrite, the number *)
(* asked for, not the number written.                                      *)
WriteElementsLoop_CountsRequested(this, s, bytes, ulElementSize, ulTotalElementsToWrite, ulTotalElementsWritten, lim, fn) ==
    IF ~(ulTotalElementsWritten < ulTotalElementsToWrite)
    THEN AssertNoErrno(Return(s, ulTotalElementsWritten, fn.n))
    ELSE Bind(fwrite(s, SubSeq(bytes, ulTotalElementsWritten * ulElementSize + 1, Len(bytes)),
                     ulElementSize, ulTotalElementsToWrite - ulTotalElementsWritten, lim,
                     FaultAt(fn.flt, fn.n + 1)), LAMBDA r :
         IF r.ret < ulTotalElementsToWrite - ulTotalElementsWritten /\ 0 # r.s.errno
         THEN Throw(r.s, "file_write_error", fn.n + 1)
         ELSE WriteElementsLoop(this, r.s, bytes, ulElementSize, ulTotalElementsToWrite,
                                ulTotalElementsToWrite, lim,
                                [fn EXCEPT !.n = fn.n + 1]))

(* Mutant: aubBuffer is not advanced past the elements already written. *)
WriteElementsLoop_SameBuffer(this, s, bytes, ulElementSize, ulTotalElementsToWrite, ulTotalElementsWritten, lim, fn) ==
    IF ~(ulTotalElementsWritten < ulTotalElementsToWrite)
    THEN AssertNoErrno(Return(s, ulTotalElementsWritten, fn.n))
    ELSE Bind(fwrite(s, bytes, ulElementSize,
                     ulTotalElementsToWrite - ulTotalElementsWritten, lim,
                     FaultAt(fn.flt, fn.n + 1)), LAMBDA r :
         IF r.ret < ulTotalElementsToWrite - ulTotalElementsWritten /\ 0 # r.s.errno
         THEN Throw(r.s, "file_write_error", fn.n + 1)
         ELSE WriteElementsLoop(this, r.s, bytes, ulElementSize, ulTotalElementsToWrite,
                                ulTotalElementsWritten + r.ret, lim,
                                [fn EXCEPT !.n = fn.n + 1]))

WriteElementsLoop(this, s, bytes, ulElementSize, ulTotalElementsToWrite, ulTotalElementsWritten, lim, fn) ==
    IF ~(ulTotalElementsWritten < ulTotalElementsToWrite)
    THEN AssertNoErrno(Return(s, ulTotalElementsWritten, fn.n))
    ELSE Bind(fwrite(s, SubSeq(bytes, ulTotalElementsWritten * ulElementSize + 1, Len(bytes)),
                     ulElementSize, ulTotalElementsToWrite - ulTotalElementsWritten, lim,
                     FaultAt(fn.flt, fn.n + 1)), LAMBDA r :
         IF r.ret < ulTotalElementsToWrite - ulTotalElementsWritten /\ 0 # r.s.errno
         THEN Throw(r.s, "file_write_error", fn.n + 1)
         ELSE WriteElementsLoop(this, r.s, bytes, ulElementSize, ulTotalElementsToWrite,
                                ulTotalElementsWritten + r.ret, lim,
                                [fn EXCEPT !.n = fn.n + 1]))

(* bytes is the content of the caller's buffer. *)
CFile_WriteElements(this, s0, avBuffer, bytes, ulElementSize, ulTotalElementsToWrite, lim, flt) ==
    LET s == SetErrno(s0, 0)
    IN IF this.m_pkFilePointer = NULLPTR THEN AssertionFailure(s, 0)
       ELSE IF ~IsBinaryFile(this) THEN AssertionFailure(s, 0)
       ELSE IF ~(IsWriteOnly(this) \/ IsReadWrite(this)) THEN AssertionFailure(s, 0)
       ELSE IF avBuffer = "null" THEN AssertionFailure(s, 0)
       ELSE IF ~(ulElementSize > 0) THEN AssertionFailure(s, 0)
       ELSE IF ~(ulTotalElementsToWrite > 0) THEN AssertionFailure(s, 0)
       ELSE WriteElementsLoop(this, s, bytes, ulElementSize, ulTotalElementsToWrite, 0,
                              lim, [flt |-> flt, n |-> 0])

CFile_ReadBytes(this, s, avBuffer, ulTotalBytesToRead, lim, flt) ==
    IF this.m_pkFilePointer = NULLPTR THEN AssertionFailure(s, 0)
    ELSE IF ~IsBinaryFile(this) THEN AssertionFailure(s, 0)
    ELSE IF ~(IsReadOnly(this) \/ IsReadWrite(this)) THEN AssertionFailure(s, 0)
    ELSE IF avBuffer = "null" THEN AssertionFailure(s, 0)
    ELSE IF ~(ulTotalBytesToRead > 0) THEN AssertionFailure(s, 0)
    ELSE CFile_ReadElements(this, s, avBuffer, 1, ulTotalBytesToRead, lim, flt)

CFile_WriteBytes(this, s, avBuffer, bytes, ulTotalBytesToWrite, lim, flt) ==
    IF this.m_pkFilePointer = NULLPTR THEN AssertionFailure(s, 0)
    ELSE IF ~IsBinaryFile(this) THEN AssertionFailure(s, 0)
    ELSE IF ~(IsWriteOnly(this) \/ IsReadWrite(this)) THEN AssertionFailure(s, 0)
    ELSE IF avBuffer = "null" THEN AssertionFailure(s, 0)
    ELSE IF ~(ulTotalBytesToWrite > 0) THEN AssertionFailure(s, 0)
    ELSE CFile_WriteElements(this, s, avBuffer, bytes, 1, ulTotalBytesToWrite, lim, flt)

-----------------------------------------------------------------------------
(* PosixFile: status, positioning, length, byte transfer.                  *)

PosixFile_GetFileBlockSize(this, s0, flt) ==
    LET s == SetErrno(s0, 0)
        r == fstat(s, FaultAt(flt, 1))
    IN IF this.m_siFileDescriptor < 0 THEN AssertionFailure(s, 0)
       ELSE IF r.ret < 0 THEN Throw(r.s, "file_status_error", 1)
       ELSE AssertNoErrno(Return(r.s, r.blksize, 1))

PosixFile_GetFilePosition(this, s0, flt) ==
    LET s == SetErrno(s0, 0)
        r == lseek(s, 0, "SEEK_CUR", FaultAt(flt, 1))
        slPosition == r.ret
    IN IF this.m_siFileDescriptor < 0 THEN AssertionFailure(s, 0)
       ELSE IF slPosition < 0 THEN Throw(r.s, "file_seek_error", 1)
       ELSE AssertNoErrno(Return(r.s, slPosition, 1))

PosixFile_SetFilePosition(this, s0, ulPosition, flt) ==
    LET s == SetErrno(s0, 0)
        r == lseek(s, ulPosition, "SEEK_SET", FaultAt(flt, 1))
    IN IF this.m_siFileDescriptor < 0 THEN AssertionFailure(s, 0)
       ELSE IF r.ret < 0 THEN Throw(r.s, "file_seek_error", 1)
       ELSE AssertNoErrno(Return(r.s, 0, 1))

PosixFile_SeekSet(this, s0, slOffset, flt) ==
    LET s == SetErrno(s0, 0)
        r == lseek(s, slOffset, "SEEK_SET", FaultAt(flt, 1))
    IN IF this.m_siFileDescriptor < 0 THEN AssertionFailure(s, 0)
       ELSE IF r.ret < 0 THEN Throw(r.s, "file_seek_error", 1)
       ELSE AssertNoErrno(Return(r.s, 0, 1))

PosixFile_SeekCurrent(this, s0, slOffset, flt) ==
    LET s == SetErrno(s0, 0)
        r == lseek(s, slOffset, "SEEK_CUR", FaultAt(flt, 1))
    IN IF this.m_siFileDescriptor < 0 THEN AssertionFailure(s, 0)
       ELSE IF r.ret < 0 THEN Throw(r.s, "file_seek_error", 1)
       ELSE AssertNoErrno(Return(r.s, 0, 1))

PosixFile_SeekEnd(this, s0, slOffset, flt) ==
    LET s == SetErrno(s0, 0)
        r == lseek(s, slOffset, "SEEK_END", FaultAt(flt, 1))
    IN IF this.m_siFileDescriptor < 0 THEN AssertionFailure(s, 0)
       ELSE IF r.ret < 0 THEN Throw(r.s, "file_seek_error", 1)
       ELSE AssertNoErrno(Return(r.s, 0, 1))

PosixFile_GetFileLength(this, s0, flt) ==
    LET s == SetErrno(s0, 0)
        r == fstat(s, FaultAt(flt, 1))
    IN IF this.m_siFileDescriptor < 0 THEN AssertionFailure(s, 0)
       ELSE IF r.ret < 0 THEN Throw(r.s, "file_status_error", 1)
       ELSE AssertNoErrno(Return(r.s, r.size, 1))

PosixFile_SetFileLength(this, s0, ulLength, flt) ==
    LET s == SetErrno(s0, 0)
        r == ftruncate(s, ulLength, FaultAt(flt, 1))
    IN IF this.m_siFileDescriptor < 0 THEN AssertionFailure(s, 0)
       ELSE IF r.ret < 0 THEN Throw(r.s, "file_truncation_error", 1)
       ELSE AssertNoErrno(Return(r.s, 0, 1))

PosixFile_EndOfFile(this, s0, flt) ==
    IF this.m_siFileDescriptor < 0 THEN AssertionFailure(s0, 0)
    ELSE Bind(PosixFile_GetFilePosition(this, s0, flt), LAMBDA p :
         IF p.out # "return" THEN p
         ELSE Bind(PosixFile_GetFileLength(this, p.s, Shift(flt, p.n)), LAMBDA l :
              IF l.out # "return" THEN [l EXCEPT !.n = p.n + l.n]
              ELSE Return(l.s, B2I(p.ret >= l.ret), p.n + l.n)))

PosixFile_GetBytesRemaining(this, s0, flt) ==
    IF this.m_siFileDescriptor < 0 THEN AssertionFailure(s0, 0)
    ELSE Bind(PosixFile_GetFilePosition(this, s0, flt), LAMBDA p :
         IF p.out # "return" THEN p
         ELSE Bind(PosixFile_GetFileLength(this, p.s, Shift(flt, p.n)), LAMBDA l :
              IF l.out # "return" THEN [l EXCEPT !.n = p.n + l.n]
              ELSE Return(l.s, Remaining(p.ret, l.ret), p.n + l.n)))

(* avBuffer is "null" or "buffer"; lim is what the kernel transfers at most. *)
(* Mutant: the buffer and length assertions of CFile::ReadBytes. *)
PosixFile_ReadBytes_Strict(this, s0, avBuffer, ulTotalBytes, lim, flt) ==
    LET s == SetErrno(s0, 0)
        r == read(s, ulTotalBytes, lim, FaultAt(flt, 1))
        slActualByteCount == r.ret
    IN IF this.m_siFileDescriptor < 0 THEN AssertionFailure(s, 0)
       ELSE IF ~(avBuffer # "null" /\ ulTotalBytes > 0) THEN AssertionFailure(s, 0)
       ELSE IF slActualByteCount < 0 THEN Throw(r.s, "file_read_error", 1)
       ELSE AssertNoErrno(ReturnBuf(r.s, slActualByteCount, r.buf, 1))

PosixFile_ReadBytes(this, s0, avBuffer, ulTotalBytes, lim, flt) ==
    LET s == SetErrno(s0, 0)
        r == read(s, ulTotalBytes, lim, FaultAt(flt, 1))
        slActualByteCount == r.ret
    IN IF this.m_siFileDescriptor < 0 THEN AssertionFailure(s, 0)
       ELSE IF ~(0 = ulTotalBytes \/ avBuffer # "null") THEN AssertionFailure(s, 0)
       ELSE IF slActualByteCount < 0 THEN Throw(r.s, "file_read_error", 1)
       ELSE AssertNoErrno(ReturnBuf(r.s, slActualByteCount, r.buf, 1))

(* Mutant: the number of bytes asked for is returned, not slActualByteCount. *)
PosixFile_WriteBytes_Requested(this, s0, avBuffer, bytes, ulTotalBytes, lim, flt) ==
    LET s == SetErrno(s0, 0)
        r == write(s, SubSeq(bytes, 1, ulTotalBytes), lim, FaultAt(flt, 1))
        slActualByteCount == r.ret
    IN IF this.m_siFileDescriptor < 0 THEN AssertionFailure(s, 0)
       ELSE IF ~(0 = ulTotalBytes \/ avBuffer # "null") THEN AssertionFailure(s, 0)
       ELSE IF slActualByteCount < 0 THEN Throw(r.s, "file_write_error", 1)
       ELSE AssertNoErrno(Return(r.s, ulTotalBytes, 1))

(* bytes is the content of the caller's buffer, ulTotalBytes long. *)
PosixFile_WriteBytes(this, s0, avBuffer, bytes, ulTotalBytes, lim, flt) ==
    LET s == SetErrno(s0, 0)
        r == write(s, SubSeq(bytes, 1, ulTotalBytes), lim, FaultAt(flt, 1))
        slActualByteCount == r.ret
    IN IF this.m_siFileDescriptor < 0 THEN AssertionFailure(s, 0)
       ELSE IF ~(0 = ulTotalBytes \/ avBuffer # "null") THEN AssertionFailure(s, 0)
       ELSE IF slActualByteCount < 0 THEN Throw(r.s, "file_write_error", 1)
       ELSE AssertNoErrno(Return(r.s, slActualByteCount, 1))

-----------------------------------------------------------------------------
(* The program: construct a handle, call its methods, destroy it.          *)

Seqs(S, n) == UNION {[1..k -> S] : k \in 0..n}

(* The record of a call: the operation, its argument (arg; for a block     *)
(* operation the number of elements and size, their size), whether its     *)
(* pointer argument was null (ptr), and the outcome.                       *)
Call(op, arg, size, ptr, R) ==
    [op |-> op, arg |-> arg, size |-> size, ptr |-> ptr, out |-> R.out, kind |-> R.kind, code |-> R.code,
     ret |-> R.ret, buf |-> R.buf, n |-> R.n, errno |-> R.s.errno]

(* The text of k characters a file holds before the program starts: lines *)
(* of one character each.                                                  *)
Text(k) == [i \in 1..k |-> IF i % 2 = 1 THEN CH ELSE NL]

(* No call is in progress and none has a result pending. *)
Idle ==
    [op |-> "none", arg |-> 0, size |-> 0, ptr |-> "none", out |-> "return", kind |-> "none",
     code |-> 0, ret |-> 0, buf |-> <<>>, n |-> 0, errno |-> 0]

(* The history kept by the program that reopens the file (SpecReopen); the *)
(* program of Spec keeps none.  handles: handles constructed so far;       *)
(* calls: method calls made through all of them; now: the bytes given to   *)
(* the WriteBytes calls of the current handle that returned, in order;     *)
(* pure: the current handle is a BINARY handle that made the file empty    *)
(* when it opened it (WRITE, WRITE_EXTENDED) and every call on it so far   *)
(* was a WriteBytes or a GetFileLength that returned; known, wrote: the previous handle was   *)
(* pure when its destructor returned, and the bytes it had written.        *)
NoHistory ==
    [handles |-> 0, calls |-> 0, now |-> <<>>, pure |-> FALSE, known |-> FALSE,
     wrote |-> <<>>]

(* No call is run step by step; the handle is not shared. *)
NoFrame == [pc |-> "none"]
(* No thread shares the handle. *)
NoThreads == [pc |-> <<>>]

(* The handle shared by the threads.  lock: the lock of the stream (owner  *)
(* 0: free; count: acquisitions of the owner, the lock being recursive);   *)
(* per thread: pc, where it is ("ready", "locking": inside LockFile,       *)
(* "put": inside PutByteLine after the string); held: acquisitions it has  *)
(* made and not undone; call: its last lock call and the result; by: the   *)
(* thread that made the latest lock call; ops: operations the threads have *)
(* started; bare: some PutByteLine was started by a thread that did not    *)
(* hold the lock.                                                          *)
SharedByThreads ==
    [lock |-> [owner |-> 0, count |-> 0],
     pc |-> [t \in Threads |-> "ready"],
     held |-> [t \in Threads |-> 0],
     call |-> [t \in Threads |-> [op |-> "none", ret |-> FALSE]],
     by |-> 0,
     ops |-> 0,
     bare |-> FALSE]

Init ==
    /\ disk \in {NoFile} \cup {[exists |-> TRUE, data |-> Text(k)] : k \in 0..MaxLen}
    /\ life = "none"
    /\ cls = "none"
    /\ m_eFileType = "TEXT"
    /\ m_eFileAccessMode = "READ"
    /\ m_pkFilePointer = NULLPTR
    /\ m_siFileDescriptor = -1
    /\ res = ClosedRes
    /\ opens = 0
    /\ closes = 0
    /\ calls = 0
    /\ misuse = FALSE
    /\ last = Idle
    /\ hist = NoHistory
    /\ frame = NoFrame
    /\ threads = NoThreads

(* A constructor that throws leaves no object.  h: the history it leaves. *)
ConstructHT(c, op, K, eFileType, eFileAccessMode, fp, fd, h, th) ==
    /\ last = Idle
    /\ hist' = h
    /\ threads' = th
    /\ UNCHANGED frame
    /\ cls' = c
    /\ life' = CASE K.out = "return" -> "alive"
                  [] K.out = "raise"  -> "nohandle"
                  [] OTHER            -> "aborted"
    /\ m_eFileType' = eFileType
    /\ m_eFileAccessMode' = eFileAccessMode
    /\ m_pkFilePointer' = fp
    /\ m_siFileDescriptor' = fd
    /\ res' = K.s.res /\ disk' = K.s.disk
    /\ opens' = IF K.s.res.open THEN 1 ELSE 0
    /\ closes' = 0
    /\ calls' = 0
    /\ misuse' = FALSE
    /\ last' = Call(op, B2I(disk.exists), 0, "none", K)

ConstructH(c, op, K, eFileType, eFileAccessMode, fp, fd, h) ==
    ConstructHT(c, op, K, eFileType, eFileAccessMode, fp, fd, h, threads)

Construct(c, op, K, eFileType, eFileAccessMode, fp, fd) ==
    life = "none" /\ ConstructH(c, op, K, eFileType, eFileAccessMode, fp, fd, hist)

New_CFile ==
    /\ life = "none"
    /\ \E eFileType \in FileType, eFileAccessMode \in FileAccessMode, flt \in Faults(1) :
        \E K \in {CFile_CFile(Machine, eFileType, eFileAccessMode, flt)} :
            Construct("CFile", "CFile", K.R, eFileType, eFileAccessMode, K.fp, -1)

New_PosixFile ==
    /\ life = "none"
    /\ \E siOpenFlags \in OpenFlagSets, flt \in Faults(1) :
        \E K \in {PosixFile_PosixFile(Machine, siOpenFlags, flt)} :
            Construct("PosixFile", "PosixFile", K.R, "BINARY", "READ", NULLPTR, K.fd)

(* The destructor runs once and ends the object's lifetime, also when it throws. *)
DestructH(op, D, fp, fd, h) ==
    /\ hist' = h
    /\ UNCHANGED <<frame, threads>>
    /\ life' = IF D.out = "assert" THEN "aborted" ELSE "destroyed"
    /\ m_pkFilePointer' = fp
    /\ m_siFileDescriptor' = fd
    /\ res' = D.s.res /\ disk' = D.s.disk
    /\ closes' = closes + D.n
    /\ last' = Call(op, 0, 0, "none", D)
    /\ UNCHANGED <<cls, m_eFileType, m_eFileAccessMode, opens, calls, misuse>>

Destruct(op, D, fp, fd) == DestructH(op, D, fp, fd, hist)

Delete_CFile ==
    /\ life = "alive" /\ cls = "CFile" /\ last = Idle
    /\ \E flt \in Faults(1) :
        \E D \in {CFile_Destructor(This, Machine, flt)} :
            Destruct("~CFile", D.R, D.fp, m_siFileDescriptor)

Delete_PosixFile ==
    /\ life = "alive" /\ cls = "PosixFile" /\ last = Idle
    /\ \E flt \in Faults(1) :
        \E D \in {PosixFile_Destructor(This, Machine, flt)} :
            Destruct("~PosixFile", D.R, m_pkFilePointer, D.fd)

(* The caller holds a live object of class c and is free to call a method. *)
Ready(c) == life = "alive" /\ cls = c /\ last = Idle /\ calls < MaxCalls

(* A method call on the live object; a failed assertion aborts the program. *)
MethodEffectF(op, arg, size, ptr, R, h, f) ==
    /\ hist' = h
    /\ frame' = f
    /\ UNCHANGED threads
    /\ life' = IF R.out = "assert" THEN "aborted" ELSE life
    /\ res' = R.s.res /\ disk' = R.s.disk
    /\ calls' = calls + 1
    /\ misuse' = (misuse \/ (R.n > 0 /\ ~res.open))
    /\ last' = Call(op, arg, size, ptr, R)
    /\ UNCHANGED <<cls, m_eFileType, m_eFileAccessMode, m_pkFilePointer,
                   m_siFileDescriptor, opens, closes>>

MethodEffect(op, arg, size, ptr, R, h) == MethodEffectF(op, arg, size, ptr, R, h, frame)

(* The program of Spec stays within MaxOff. *)
MethodStepH(c, op, arg, size, ptr, R, h) ==
    /\ Len(R.s.disk.data) <= MaxOff
    /\ R.s.res.pos <= MaxOff
    /\ MethodEffect(op, arg, size, ptr, R, h)

MethodStep(c, op, arg, size, ptr, R) == MethodStepH(c, op, arg, size, ptr, R, hist)

MethodE(c, op, arg, size, ptr, outcome) ==
    Ready(c) /\ \E R \in {outcome} : MethodStep(c, op, arg, size, ptr, R)
MethodP(c, op, arg, ptr, outcome) == MethodE(c, op, arg, 0, ptr, outcome)
Method(c, op, arg, outcome) == MethodE(c, op, arg, 0, "none", outcome)

(* The caller takes the result of the call (the value returned or the     *)
(* exception caught) and goes on.                                          *)
Resume ==
    /\ last # Idle
    /\ life # "aborted"
    /\ last' = Idle
    /\ UNCHANGED <<disk, life, cls, m_eFileType, m_eFileAccessMode, m_pkFilePointer,
                   m_siFileDescriptor, res, opens, closes, calls, misuse, hist,
                   frame, threads>>

Offsets == -1..MaxOff
Positions == 0..MaxOff

CFile_Status ==
    /\ Ready("CFile")
    /\ \E flt \in Faults(1) :
           \/ Method("CFile", "GetFileBlockSize", 0, CFile_GetFileBlockSize(This, Machine, flt))
           \/ Method("CFile", "GetFileLength", 0, CFile_GetFileLength(This, Machine, flt))
           \/ Method("CFile", "GetFilePosition", 0, CFile_GetFilePosition(This, Machine, flt))
           \/ Method("CFile", "Flush", 0, CFile_Flush(This, Machine, flt))

CFile_Seek ==
    /\ Ready("CFile")
    /\ \E flt \in Faults(1) :
           \/ \E p \in Positions :
               Method("CFile", "SetFilePosition", p, CFile_SetFilePosition(This, Machine, p, flt))
           \/ \E o \in Offsets :
               \/ Method("CFile", "SeekSet", o, CFile_SeekSet(This, Machine, o, flt))
               \/ Method("CFile", "SeekCurrent", o, CFile_SeekCurrent(This, Machine, o, flt))
               \/ Method("CFile", "SeekEnd", o, CFile_SeekEnd(This, Machine, o, flt))
           \/ Method("CFile", "Rewind", 0, CFile_Rewind(This, Machine, flt))

CFile_Length ==
    /\ Ready("CFile")
    /\ \/ \E flt \in Faults(1), len \in 0..MaxLen :
           Method("CFile", "SetFileLength", len, CFile_SetFileLength(This, Machine, len, flt))
       \/ \E flt \in Faults(2) :
           \/ Method("CFile", "EndOfFile", 0, CFile_EndOfFile(This, Machine, flt))
           \/ Method("CFile", "GetBytesRemaining", 0, CFile_GetBytesRemaining(This, Machine, flt))

Pointers == {"null", "buffer"}
Strings == {"null", "string"}
Formats == {"null", "%c"}
OkValues == {0, 1}        \* what fputs / fputws return on success

CFile_Buffering ==
    /\ Ready("CFile")
    /\ \/ \E flt \in Faults(1), eBufferMode \in {"NONE", "LINE", "FULL"} :
           Method("CFile", "SetBuffer", 0,
                  CFile_SetBuffer(This, Machine, eBufferMode, 0, flt))
       \/ \E flt \in Faults(2) :
           Method("CFile", "SetOptimalBuffer", 0, CFile_SetOptimalBuffer(This, Machine, flt))

CFile_Orientation ==
    /\ Ready("CFile")
    /\ \/ \E eDesiredCharacterMode \in {-1, 0, 1} :
           Method("CFile", "SetCharacterMode", eDesiredCharacterMode,
                  CFile_SetCharacterMode(This, Machine, eDesiredCharacterMode))
       \/ Method("CFile", "GetCharacterMode", 0, CFile_GetCharacterMode(This, Machine))

CFile_ByteCharacter ==
    /\ Ready("CFile")
    /\ \/ \E flt \in Faults(1) :
           Method("CFile", "GetByteCharacter", 0, CFile_GetByteCharacter(This, Machine, flt))
       \/ \E c \in Written \cup {EOF} :
           Method("CFile", "UngetByteCharacter", c, CFile_UngetByteCharacter(This, Machine, c))
       \/ \E flt \in Faults(1), c \in Written :
           Method("CFile", "PutByteCharacter", c, CFile_PutByteCharacter(This, Machine, c, flt))

CFile_WideCharacter ==
    /\ Ready("CFile")
    /\ \E weof \in WideEOFs :
           \/ \E flt \in Faults(1) :
               Method("CFile", "GetWideCharacter", 0,
                      CFile_GetWideCharacter(This, Machine, weof, flt))
           \/ \E wc \in Written \cup {weof} :
               Method("CFile", "UngetWideCharacter", wc,
                      CFile_UngetWideCharacter(This, Machine, wc, weof))
           \/ \E flt \in Faults(1), wc \in Written :
               Method("CFile", "PutWideCharacter", wc,
                      CFile_PutWideCharacter(This, Machine, wc, weof, flt))

CFile_ByteString ==
    /\ Ready("CFile")
    /\ \/ \E flt \in Faults(MaxFault) :
           \/ Method("CFile", "GetByteString", 0, CFile_GetByteString(This, Machine, flt))
           \/ Method("CFile", "GetByteLine", 0, CFile_GetByteLine(This, Machine, flt))
       \/ \E flt \in Faults(2), acString \in Strings, str \in Seqs(Written, MaxStr),
             okv \in OkValues :
           \/ MethodP("CFile", "PutByteString", Len(str), acString,
                      Given(CFile_PutByteString(This, Machine, acString, str, okv, flt), str))
           \/ MethodP("CFile", "PutByteLine", Len(str), acString,
                      Given(CFile_PutByteLine(This, Machine, acString, str, okv, flt), str))

CFile_WideString ==
    /\ Ready("CFile")
    /\ \E weof \in WideEOFs :
           \/ \E flt \in Faults(MaxFault) :
               \/ Method("CFile", "GetWideString", 0,
                         CFile_GetWideString(This, Machine, weof, flt))
               \/ Method("CFile", "GetWideLine", 0,
                         CFile_GetWideLine(This, Machine, weof, flt))
           \/ \E flt \in Faults(2), awcString \in Strings, str \in Seqs(Written, MaxStr),
                 okv \in OkValues :
               \/ MethodP("CFile", "PutWideString", Len(str), awcString,
                          Given(CFile_PutWideString(This, Machine, awcString, str, okv, flt), str))
               \/ MethodP("CFile", "PutWideLine", Len(str), awcString,
                          Given(CFile_PutWideLine(This, Machine, awcString, str, okv, weof, flt), str))

CFile_Formatted ==
    /\ Ready("CFile")
    /\ \E flt \in Faults(1), acFormat \in Formats :
           \/ \E text \in Seqs(Written, 1) :
               \/ MethodP("CFile", "PrintByte", Len(text), acFormat,
                          CFile_PrintByte(This, Machine, acFormat, text, flt))
               \/ MethodP("CFile", "PrintWide", Len(text), acFormat,
                          CFile_PrintWide(This, Machine, acFormat, text, flt))
           \/ MethodP("CFile", "ScanByte", 0, acFormat,
                      CFile_ScanByte(This, Machine, acFormat, flt))
           \/ MethodP("CFile", "ScanWide", 0, acFormat,
                      CFile_ScanWide(This, Machine, acFormat, flt))

CFile_Block ==
    /\ Ready("CFile")
    /\ \E flt \in Faults(MaxFault), avBuffer \in Pointers, lim \in 1..MaxLen :
           \/ \E ulTotalBytes \in 0..MaxLen :
               MethodE("CFile", "ReadBytes", ulTotalBytes, 1, avBuffer,
                       CFile_ReadBytes(This, Machine, avBuffer, ulTotalBytes, lim, flt))
           \/ \E bytes \in Seqs(Written, MaxLen) :
               MethodE("CFile", "WriteBytes", Len(bytes), 1, avBuffer,
                       Given(CFile_WriteBytes(This, Machine, avBuffer, bytes, Len(bytes),
                                              lim, flt), bytes))
           \/ \E ulElementSize \in 0..MaxElem, ulTotalElements \in 0..MaxLen :
               \/ MethodE("CFile", "ReadElements", ulTotalElements, ulElementSize, avBuffer,
                          CFile_ReadElements(This, Machine, avBuffer, ulElementSize,
                                             ulTotalElements, lim, flt))
               \/ \E bytes \in [1..(ulElementSize * ulTotalElements) -> {CH}] :
                   MethodE("CFile", "WriteElements", ulTotalElements, ulElementSize, avBuffer,
                           Given(CFile_WriteElements(This, Machine, avBuffer, bytes,
                                                     ulElementSize, ulTotalElements, lim, flt),
                                 bytes))

PosixFile_Status ==
    /\ Ready("PosixFile")
    /\ \E flt \in Faults(1) :
           \/ Method("PosixFile", "GetFileBlockSize", 0, PosixFile_GetFileBlockSize(This, Machine, flt))
           \/ Method("PosixFile", "GetFileLength", 0, PosixFile_GetFileLength(This, Machine, flt))
           \/ Method("PosixFile", "GetFilePosition", 0, PosixFile_GetFilePosition(This, Machine, flt))

PosixFile_Seek ==
    /\ Ready("PosixFile")
    /\ \E flt \in Faults(1) :
           \/ \E p \in Positions :
               Method("PosixFile", "SetFilePosition", p, PosixFile_SetFilePosition(This, Machine, p, flt))
           \/ \E o \in Offsets :
               \/ Method("PosixFile", "SeekSet", o, PosixFile_SeekSet(This, Machine, o, flt))
               \/ Method("PosixFile", "SeekCurrent", o, PosixFile_SeekCurrent(This, Machine, o, flt))
               \/ Method("PosixFile", "SeekEnd", o, PosixFile_SeekEnd(This, Machine, o, flt))

PosixFile_Length ==
    /\ Ready("PosixFile")
    /\ \/ \E flt \in Faults(1), len \in 0..MaxLen :
           Method("PosixFile", "SetFileLength", len, PosixFile_SetFileLength(This, Machine, len, flt))
       \/ \E flt \in Faults(2) :
           \/ Method("PosixFile", "EndOfFile", 0, PosixFile_EndOfFile(This, Machine, flt))
           \/ Method("PosixFile", "GetBytesRemaining", 0, PosixFile_GetBytesRemaining(This, Machine, flt))

PosixFile_Transfer ==
    /\ Ready("PosixFile")
    /\ \E flt \in Faults(1), avBuffer \in Pointers, lim \in 1..MaxLen :
           \/ \E ulTotalBytes \in 0..MaxLen :
               MethodE("PosixFile", "ReadBytes", ulTotalBytes, 1, avBuffer,
                       PosixFile_ReadBytes(This, Machine, avBuffer, ulTotalBytes, lim, flt))
           \/ \E bytes \in Seqs(Written, MaxLen) :
               MethodE("PosixFile", "WriteBytes", Len(bytes), 1, avBuffer,
                       Given(PosixFile_WriteBytes(This, Machine, avBuffer, bytes, Len(bytes),
                                                  lim, flt), bytes))

Next ==
    \/ New_CFile
    \/ New_PosixFile
    \/ Delete_CFile
    \/ Delete_PosixFile
    \/ Resume
    \/ CFile_Status
    \/ CFile_Seek
    \/ CFile_Length
    \/ CFile_Buffering
    \/ CFile_Orientation
    \/ CFile_ByteCharacter
    \/ CFile_WideCharacter
    \/ CFile_ByteString
    \/ CFile_WideString
    \/ CFile_Formatted
    \/ CFile_Block
    \/ PosixFile_Status
    \/ PosixFile_Seek
    \/ PosixFile_Length
    \/ PosixFile_Transfer

Spec == Init /\ [][Next]_vars

-----------------------------------------------------------------------------
(* The program that reopens the file: it constructs a CFile, transfers     *)
(* bytes and asks for the length, destroys the handle and constructs the   *)
(* next one on the same path.  hist keeps what it wrote.                   *)

Logged_New_CFile ==
    /\ life \in {"none", "destroyed"}
    /\ hist.handles < MaxHandles
    /\ \E eFileType \in FileType, eFileAccessMode \in FileAccessMode, flt \in Faults(1) :
        \E K \in {CFile_CFile(Machine, eFileType, eFileAccessMode, flt)} :
            ConstructH("CFile", "CFile", K.R, eFileType, eFileAccessMode, K.fp, -1,
                       [hist EXCEPT !.handles = @ + 1,
                                    !.now = <<>>,
                                    !.pure = /\ K.R.out = "return"
                                             /\ eFileType = "BINARY"
                                             /\ eFileAccessMode \in {"WRITE", "WRITE_EXTENDED"}])

Logged_Delete_CFile ==
    /\ life = "alive" /\ cls = "CFile" /\ last = Idle
    /\ \E flt \in Faults(1) :
        \E D \in {CFile_Destructor(This, Machine, flt)} :
            DestructH("~CFile", D.R, D.fp, m_siFileDescriptor,
                      [hist EXCEPT !.known = hist.pure /\ D.R.out = "return",
                                   !.wrote = IF hist.pure /\ D.R.out = "return"
                                             THEN hist.now ELSE <<>>,
                                   !.now = <<>>,
                                   !.pure = FALSE])

LoggedReady == life = "alive" /\ cls = "CFile" /\ last = Idle /\ hist.calls < MaxCalls

Logged_WriteBytes ==
    /\ LoggedReady
    /\ \E flt \in Faults(MaxFault), avBuffer \in Pointers, lim \in 1..MaxLen,
          bytes \in Seqs(Written, MaxLen) :
        \E R \in {CFile_WriteBytes(This, Machine, avBuffer, bytes, Len(bytes), lim, flt)} :
            MethodStepH("CFile", "WriteBytes", Len(bytes), 1, avBuffer, R,
                        [hist EXCEPT !.calls = @ + 1,
                                     !.now = IF R.out = "return" THEN @ \o bytes ELSE @,
                                     !.pure = @ /\ R.out = "return"])

Logged_ReadBytes ==
    /\ LoggedReady
    /\ \E flt \in Faults(MaxFault), avBuffer \in Pointers, lim \in 1..MaxLen,
          ulTotalBytes \in 0..MaxLen :
        \E R \in {CFile_ReadBytes(This, Machine, avBuffer, ulTotalBytes, lim, flt)} :
            MethodStepH("CFile", "ReadBytes", ulTotalBytes, 1, avBuffer, R,
                        [hist EXCEPT !.calls = @ + 1, !.pure = FALSE])

Logged_GetFileLength ==
    /\ LoggedReady
    /\ \E flt \in Faults(1) :
        \E R \in {CFile_GetFileLength(This, Machine, flt)} :
            MethodStepH("CFile", "GetFileLength", 0, 0, "none", R,
                        [hist EXCEPT !.calls = @ + 1, !.pure = @ /\ R.out = "return"])

NextReopen ==
    \/ Logged_New_CFile
    \/ Logged_Delete_CFile
    \/ Logged_WriteBytes
    \/ Logged_ReadBytes
    \/ Logged_GetFileLength
    \/ Resume

SpecReopen == Init /\ [][NextReopen]_vars

-----------------------------------------------------------------------------
(* The program that reads lines: a text file of any content up to MaxLine  *)
(* characters is opened for reading and read string by string or line by   *)
(* line, byte or wide.                                                     *)

InitLines ==
    /\ disk \in {[exists |-> TRUE, data |-> d] : d \in Seqs(Written, MaxLine)}
    /\ life = "none"
    /\ cls = "none"
    /\ m_eFileType = "TEXT"
    /\ m_eFileAccessMode = "READ"
    /\ m_pkFilePointer = NULLPTR
    /\ m_siFileDescriptor = -1
    /\ res = ClosedRes
    /\ opens = 0
    /\ closes = 0
    /\ calls = 0
    /\ misuse = FALSE
    /\ last = Idle
    /\ hist = NoHistory
    /\ frame = NoFrame
    /\ threads = NoThreads

Lines_New_CFile ==
    /\ life = "none"
    /\ \E eFileAccessMode \in {"READ", "READ_EXTENDED"}, flt \in Faults(1) :
        \E K \in {CFile_CFile(Machine, "TEXT", eFileAccessMode, flt)} :
            Construct("CFile", "CFile", K.R, "TEXT", eFileAccessMode, K.fp, -1)

LinesReady == life = "alive" /\ cls = "CFile" /\ last = Idle /\ calls < MaxReads

Lines_GetByte ==
    /\ LinesReady
    /\ \E flt \in Faults(MaxFault), op \in {"GetByteString", "GetByteLine"} :
        \E R \in {IF op = "GetByteString" THEN CFile_GetByteString(This, Machine, flt)
                  ELSE CFile_GetByteLine(This, Machine, flt)} :
            MethodEffect(op, 0, 0, "none", R, hist)

Lines_GetWide ==
    /\ LinesReady
    /\ \E flt \in Faults(MaxFault), weof \in WideEOFs, op \in {"GetWideString", "GetWideLine"} :
        \E R \in {IF op = "GetWideString" THEN CFile_GetWideString(This, Machine, weof, flt)
                  ELSE CFile_GetWideLine(This, Machine, weof, flt)} :
            MethodEffect(op, 0, 0, "none", R, hist)

NextLines ==
    \/ Lines_New_CFile
    \/ Lines_GetByte
    \/ Lines_GetWide
    \/ Resume

SpecLines == InitLines /\ [][NextLines]_vars

-----------------------------------------------------------------------------
(* The program that rewinds: it opens a text file for reading and writing, *)
(* puts one line, rewinds and reads one string or line.  hist.calls is the *)
(* number of calls it has made, hist.now the string it put, hist.pure that *)
(* the file was empty when the handle opened it and every call returned.   *)

Trip_New_CFile ==
    /\ life = "none"
    /\ \E eFileAccessMode \in {"READ_EXTENDED", "WRITE_EXTENDED", "APPEND_EXTENDED"},
          flt \in Faults(1) :
        \E K \in {CFile_CFile(Machine, "TEXT", eFileAccessMode, flt)} :
            ConstructH("CFile", "CFile", K.R, "TEXT", eFileAccessMode, K.fp, -1,
                       [hist EXCEPT !.pure = K.R.out = "return" /\ K.R.s.disk.data = <<>>])

TripReady(k) == life = "alive" /\ cls = "CFile" /\ last = Idle /\ hist.calls = k

Trip_PutLine ==
    /\ TripReady(0)
    /\ \E flt \in Faults(2), str \in Seqs({CH}, MaxTrip), okv \in OkValues, weof \in WideEOFs,
          op \in {"PutByteLine", "PutWideLine"} :
        \E R \in {IF op = "PutByteLine"
                  THEN CFile_PutByteLine(This, Machine, "string", str, okv, flt)
                  ELSE CFile_PutWideLine(This, Machine, "string", str, okv, weof, flt)} :
            MethodEffect(op, Len(str), 0, "string", Given(R, str),
                         [hist EXCEPT !.calls = 1, !.now = str,
                                      !.pure = @ /\ R.out = "return"])

Trip_Rewind ==
    /\ TripReady(1)
    /\ \E flt \in Faults(1) :
        \E R \in {CFile_Rewind(This, Machine, flt)} :
            MethodEffect("Rewind", 0, 0, "none", R,
                         [hist EXCEPT !.calls = 2, !.pure = @ /\ R.out = "return"])

Trip_Get ==
    /\ TripReady(2)
    /\ \E flt \in Faults(MaxFault), weof \in WideEOFs,
          op \in {"GetByteString", "GetByteLine", "GetWideString", "GetWideLine"} :
        \E R \in {CASE op = "GetByteString" -> CFile_GetByteString(This, Machine, flt)
                    [] op = "GetByteLine" -> CFile_GetByteLine(This, Machine, flt)
                    [] op = "GetWideString" -> CFile_GetWideString(This, Machine, weof, flt)
                    [] OTHER -> CFile_GetWideLine(This, Machine, weof, flt)} :
            MethodEffect(op, 0, 0, "none", R, [hist EXCEPT !.calls = 3])

NextTrip ==
    \/ Trip_New_CFile
    \/ Trip_PutLine
    \/ Trip_Rewind
    \/ Trip_Get
    \/ Resume

SpecTrip == Init /\ [][NextTrip]_vars

-----------------------------------------------------------------------------
(* The program that runs ReadElements step by step: it opens a binary file *)
(* of any content up to MaxLine bytes for reading, may seek, and calls     *)
(* ReadElements; every pass of the loop is a step, and every native read   *)
(* may be short (lim).  frame holds the locals of the call in progress.    *)

Read_New_CFile ==
    /\ life = "none"
    /\ \E eFileAccessMode \in {"READ", "READ_EXTENDED"}, flt \in Faults(1) :
        \E K \in {CFile_CFile(Machine, "BINARY", eFileAccessMode, flt)} :
            Construct("CFile", "CFile", K.R, "BINARY", eFileAccessMode, K.fp, -1)

Read_Seek ==
    /\ Ready("CFile") /\ frame = NoFrame
    /\ \E o \in 0..(MaxLine + 1), flt \in Faults(1) :
        \E R \in {CFile_SeekSet(This, Machine, o, flt)} :
            MethodEffect("SeekSet", o, 0, "none", R, hist)

(* The assertions of ReadElements hold; errno is cleared. *)
Read_Call ==
    /\ Ready("CFile") /\ frame = NoFrame
    /\ \E ulElementSize \in 1..MaxElem, ulTotalElementsToRead \in 1..MaxLen :
           frame' = [pc |-> "loop", size |-> ulElementSize, count |-> ulTotalElementsToRead,
                     total |-> 0, got |-> <<>>, n |-> 0]
    /\ UNCHANGED <<disk, life, cls, m_eFileType, m_eFileAccessMode, m_pkFilePointer,
                   m_siFileDescriptor, res, opens, closes, calls, misuse, last, hist,
                   threads>>

Read_Ends(R) ==
    MethodEffectF("ReadElements", frame.count, frame.size, "buffer",
                  [R EXCEPT !.n = frame.n + R.n], hist, NoFrame)

Read_Iterate ==
    /\ frame.pc = "loop"
    /\ IF ~(frame.total < frame.count)
       THEN Read_Ends(AssertNoErrno(ReturnBuf(Machine, frame.total, frame.got, 0)))
       ELSE \E lim \in 1..MaxLen, flt \in Faults(MaxFault) :
            \E I \in {ReadElementsIteration(This, Machine, frame.size, frame.count,
                                            frame.total, lim, flt)} :
               IF I.pc = "done" THEN Read_Ends(I.R)
               ELSE /\ frame' = [frame EXCEPT !.pc = I.pc,
                                              !.total = @ + I.add.ret,
                                              !.got = @ \o I.add.buf,
                                              !.n = @ + I.R.n]
                    /\ res' = I.R.s.res /\ disk' = I.R.s.disk
                    /\ UNCHANGED <<life, cls, m_eFileType, m_eFileAccessMode,
                                   m_pkFilePointer, m_siFileDescriptor, opens, closes,
                                   calls, misuse, last, hist, threads>>

Read_End ==
    /\ frame.pc = "end"
    /\ \E flt \in Faults(2) :
        \E R \in {ReadElementsEnd(This, Machine, frame.total, frame.got,
                                  [flt |-> flt, n |-> 0])} :
            Read_Ends(R)

NextRead ==
    \/ Read_New_CFile
    \/ Read_Seek
    \/ Read_Call
    \/ Read_Iterate
    \/ Read_End
    \/ Resume

(* The thread that is inside ReadElements goes on running. *)
SpecRead ==
    InitLines /\ [][NextRead]_vars /\ WF_vars(Read_Iterate) /\ WF_vars(Read_End)

-----------------------------------------------------------------------------
(* The program of threads: one text handle opened for writing is shared by *)
(* MaxThreads threads; each locks, tries to lock, unlocks what it holds    *)
(* and writes lines of its own character with PutByteLine, whose two       *)
(* native calls (fputs, fputc) are two steps.  A thread calls UnlockFile   *)
(* only while it holds the lock.                                           *)

Thread_New_CFile ==
    /\ life = "none"
    /\ \E eFileAccessMode \in {"WRITE", "WRITE_EXTENDED"} :
        \E K \in {CFile_CFile(Machine, "TEXT", eFileAccessMode, NoFault)} :
            ConstructHT("CFile", "CFile", K.R, "TEXT", eFileAccessMode, K.fp, -1,
                        hist, SharedByThreads)

ThreadAt(t, pc) ==
    /\ life = "alive" /\ cls = "CFile" /\ last = Idle
    /\ threads # NoThreads /\ threads.pc[t] = pc

(* The character thread t writes. *)
ThreadCharacter(t) == CH + t - 1

UnchangedByLocking ==
    UNCHANGED <<disk, life, cls, m_eFileType, m_eFileAccessMode, m_pkFilePointer,
                m_siFileDescriptor, res, opens, closes, calls, misuse, last, hist, frame>>

Thread_LockFile_Call ==
    \E t \in Threads :
        /\ ThreadAt(t, "ready") /\ threads.ops < MaxOps
        /\ threads' = [threads EXCEPT !.pc[t] = "locking", !.ops = @ + 1]
        /\ UnchangedByLocking

Thread_LockFile_ReturnTo(t) ==
    /\ ThreadAt(t, "locking")
    /\ LockAvailable(threads.lock, t)
    /\ threads' = [threads EXCEPT !.lock = CFile_LockFile(This, threads.lock, t),
                                  !.pc[t] = "ready",
                                  !.held[t] = @ + 1,
                                  !.by = t,
                                  !.call[t] = [op |-> "LockFile", ret |-> TRUE]]
    /\ UnchangedByLocking

Thread_LockFile_Return == \E t \in Threads : Thread_LockFile_ReturnTo(t)

Thread_TryLockFile_By(t) ==
    /\ ThreadAt(t, "ready") /\ threads.ops < MaxOps
    /\ \E r \in {CFile_TryLockFile(This, threads.lock, t)} :
        threads' = [threads EXCEPT !.lock = r.lock,
                                  !.ops = @ + 1,
                                  !.held[t] = IF r.ret THEN @ + 1 ELSE @,
                                  !.by = t,
                                  !.call[t] = [op |-> "TryLockFile", ret |-> r.ret]]
    /\ UnchangedByLocking

Thread_TryLockFile == \E t \in Threads : Thread_TryLockFile_By(t)

Thread_UnlockFile ==
    \E t \in Threads :
        /\ ThreadAt(t, "ready") /\ threads.held[t] > 0
        /\ threads' = [threads EXCEPT !.lock = CFile_UnlockFile(This, threads.lock, t),
                                      !.held[t] = @ - 1,
                                      !.by = t,
                                      !.call[t] = [op |-> "UnlockFile", ret |-> TRUE]]
        /\ UnchangedByLocking

(* PutByteLine up to the return of PutByteString. *)
Thread_PutByteLine_String ==
    \E t \in Threads :
        /\ ThreadAt(t, "ready") /\ threads.ops < MaxOps
        /\ LockAvailable(threads.lock, t)
        /\ \E okv \in OkValues :
            \E R \in {CFile_PutByteString(This, Machine, "string", <<ThreadCharacter(t)>>,
                                          okv, NoFault)} :
               /\ R.out = "return"
               /\ res' = R.s.res /\ disk' = R.s.disk
        /\ threads' = [threads EXCEPT !.pc[t] = "put", !.ops = @ + 1,
                                      !.bare = @ \/ threads.held[t] = 0]
        /\ UNCHANGED <<life, cls, m_eFileType, m_eFileAccessMode, m_pkFilePointer,
                       m_siFileDescriptor, opens, closes, calls, misuse, last, hist, frame>>

(* PutByteLine from PutByteCharacter on. *)
Thread_PutByteLine_Character ==
    \E t \in Threads :
        /\ ThreadAt(t, "put")
        /\ LockAvailable(threads.lock, t)
        /\ \E R \in {CFile_PutByteCharacter(This, Machine, NL, NoFault)} :
               /\ R.out = "return"
               /\ res' = R.s.res /\ disk' = R.s.disk
        /\ threads' = [threads EXCEPT !.pc[t] = "ready"]
        /\ UNCHANGED <<life, cls, m_eFileType, m_eFileAccessMode, m_pkFilePointer,
                       m_siFileDescriptor, opens, closes, calls, misuse, last, hist, frame>>

NextThreads ==
    \/ Thread_New_CFile
    \/ Thread_LockFile_Call
    \/ Thread_LockFile_Return
    \/ Thread_TryLockFile
    \/ Thread_UnlockFile
    \/ Thread_PutByteLine_String
    \/ Thread_PutByteLine_Character
    \/ Resume

(* A thread that waits in LockFile gets the lock when it stays free, a     *)
(* thread inside PutByteLine goes on, and a thread that holds the lock     *)
(* comes to call UnlockFile.                                               *)
SpecThreads ==
    /\ Init /\ [][NextThreads]_vars
    /\ WF_vars(Thread_LockFile_Return)
    /\ WF_vars(Thread_PutByteLine_Character)
    /\ WF_vars(Thread_UnlockFile)

-----------------------------------------------------------------------------
(* Properties.                                                             *)

Destructors == {"~CFile", "~PosixFile"}

(* C1: destruction whose native close fails reports file_close_error and,  *)
(* with or without failure, leaves the stored handle invalid: the FILE     *)
(* pointer null, the descriptor -1.                                        *)
C1_HandleInvalidated ==
    (last.op \in Destructors /\ last.out # "assert") =>
        /\ m_pkFilePointer = NULLPTR
        /\ m_siFileDescriptor = -1
        /\ (last.out = "raise" => last.kind = "file_close_error")

(* C2: the resource is opened once by the constructor, is open and the     *)
(* stored handle valid for every call on a live handle, no native call is  *)
(* ever issued on a resource that is not open, and the native close is     *)
(* issued once, by the destructor; a constructor whose open fails leaves   *)
(* no handle, no call and no close.                                        *)
C2_OneOpenOneClose ==
    /\ opens <= 1 /\ closes <= 1
    /\ ~misuse
    /\ life = "none" => opens = 0 /\ closes = 0 /\ ~res.open
    /\ life = "alive" =>
        /\ opens = 1 /\ closes = 0 /\ res.open
        /\ cls = "CFile" => m_pkFilePointer = FILEPTR
        /\ cls = "PosixFile" => m_siFileDescriptor >= 0
    /\ life = "aborted" => opens = 1 /\ closes = 0
    /\ life = "destroyed" => opens = 1 /\ closes = 1 /\ ~res.open
    /\ life = "nohandle" =>
        /\ opens = 0 /\ closes = 0 /\ calls = 0 /\ ~res.open
        /\ last.op \in {"CFile", "PosixFile", "none"}
        /\ m_pkFilePointer = NULLPTR /\ m_siFileDescriptor = -1

C2_Witness ==
    /\ life = "destroyed" /\ calls = MaxCalls /\ closes = 1
    /\ last.op = "~CFile" /\ last.kind = "file_close_error"

(* C3: constructing a CFile on a path that does not exist fails with       *)
(* file_open_error and leaves no handle (and no file) when the access mode *)
(* is READ, for TEXT and BINARY; with WRITE or WRITE_EXTENDED, unless the  *)
(* environment fails the open, it succeeds and the file exists with        *)
(* length 0.                                                               *)
C3_OpenMissingPath ==
    (last.op = "CFile" /\ last.arg = 0) =>
        /\ m_eFileAccessMode = "READ" =>
            /\ last.out = "raise" /\ last.kind = "file_open_error"
            /\ life = "nohandle" /\ ~disk.exists
        /\ (m_eFileAccessMode \in {"WRITE", "WRITE_EXTENDED"} /\ last.errno # EIO) =>
            /\ last.out = "return" /\ life = "alive"
            /\ disk.exists /\ Len(disk.data) = 0

C3_Witness ==
    /\ last.op = "CFile" /\ last.arg = 0
    /\ m_eFileAccessMode = "WRITE_EXTENDED" /\ m_eFileType = "BINARY"
    /\ last.out = "return" /\ disk.exists /\ Len(disk.data) = 0

(* The error kind of each operation's category. *)
CategoryKind(op) ==
    CASE op \in {"CFile", "PosixFile"} -> "file_open_error"
      [] op \in Destructors -> "file_close_error"
      [] op \in {"GetFileBlockSize", "GetFileLength"} -> "file_status_error"
      [] op = "Flush" -> "file_flush_error"
      [] op \in {"GetByteCharacter", "UngetByteCharacter", "GetWideCharacter",
                 "UngetWideCharacter", "GetByteString", "GetWideString", "GetByteLine",
                 "GetWideLine", "ScanByte", "ScanWide", "ReadBytes", "ReadElements"}
            -> "file_read_error"
      [] op \in {"PutByteCharacter", "PutWideCharacter", "PutByteString", "PutWideString",
                 "PutByteLine", "PutWideLine", "PrintByte", "PrintWide", "WriteBytes",
                 "WriteElements"}
            -> "file_write_error"
      [] op \in {"SetFilePosition", "SeekSet", "SeekCurrent", "SeekEnd", "Rewind"}
            -> "file_seek_error"
      [] op = "GetFilePosition" -> "file_tell_error"
      [] op = "SetFileLength" -> "file_truncation_error"
      [] OTHER -> "any"

(* C4: every native failure is raised as the error kind of the operation's *)
(* category: open, close, status, flush, read, write, seek, tell,          *)
(* truncation; no operation raises the kind of another category.           *)
C4_KindOfCategory ==
    (last.out = "raise" /\ CategoryKind(last.op) # "any") =>
        last.kind = CategoryKind(last.op)

(* What a CFile on the same machine raises when the native call at of a    *)
(* shared operation fails.                                                 *)
AsCFile == [This EXCEPT !.m_eFileType = "BINARY", !.m_eFileAccessMode = "READ_EXTENDED",
                        !.m_pkFilePointer = FILEPTR]
CFileOutcome(op, arg, flt) ==
    CASE op = "GetFileBlockSize" -> CFile_GetFileBlockSize(AsCFile, Machine, flt)
      [] op = "GetFilePosition" -> CFile_GetFilePosition(AsCFile, Machine, flt)
      [] op = "SetFilePosition" -> CFile_SetFilePosition(AsCFile, Machine, arg, flt)
      [] op = "SeekSet" -> CFile_SeekSet(AsCFile, Machine, arg, flt)
      [] op = "SeekCurrent" -> CFile_SeekCurrent(AsCFile, Machine, arg, flt)
      [] op = "SeekEnd" -> CFile_SeekEnd(AsCFile, Machine, arg, flt)
      [] op = "GetFileLength" -> CFile_GetFileLength(AsCFile, Machine, flt)
      [] op = "SetFileLength" -> CFile_SetFileLength(AsCFile, Machine, arg, flt)
      [] op = "EndOfFile" -> CFile_EndOfFile(AsCFile, Machine, flt)
      [] op = "GetBytesRemaining" -> CFile_GetBytesRemaining(AsCFile, Machine, flt)
SharedOperations ==
    {"GetFileBlockSize", "GetFilePosition", "SetFilePosition", "SeekSet", "SeekCurrent",
     "SeekEnd", "GetFileLength", "SetFileLength", "EndOfFile", "GetBytesRemaining"}

(* C5: a native failure in an operation of PosixFile that CFile shares     *)
(* raises the error kind that the failure of the same native step raises   *)
(* in CFile; in particular for GetFilePosition.                            *)
C5_SameKindInBothHandles ==
    (cls = "PosixFile" /\ last.op \in SharedOperations /\ last.out = "raise"
        /\ last.errno = EIO) =>
        last.kind = CFileOutcome(last.op, last.arg, [at |-> last.n, e |-> EIO]).kind

(* C6: every error raised carries the errno of the failing native call,    *)
(* never 0; also in UngetByteCharacter, UngetWideCharacter, ScanByte and   *)
(* ScanWide.                                                               *)
C6_CodeIsErrno ==
    last.out = "raise" => last.code # 0 /\ last.code = last.errno

OrientationOperations == {"SetCharacterMode", "GetCharacterMode"}
TextReads ==
    {"GetByteCharacter", "UngetByteCharacter", "GetWideCharacter", "UngetWideCharacter",
     "GetByteString", "GetWideString", "GetByteLine", "GetWideLine", "ScanByte", "ScanWide"}
TextWrites ==
    {"PutByteCharacter", "PutWideCharacter", "PutByteString", "PutWideString",
     "PutByteLine", "PutWideLine", "PrintByte", "PrintWide"}
BlockReads == {"ReadBytes", "ReadElements"}
BlockWrites == {"WriteBytes", "WriteElements"}
ReadModes == {"READ", "READ_EXTENDED", "WRITE_EXTENDED", "APPEND_EXTENDED"}
WriteModes == {"WRITE", "APPEND", "READ_EXTENDED", "WRITE_EXTENDED", "APPEND_EXTENDED"}

(* The last call was made under a (content type, access mode) it is not    *)
(* legal under.                                                            *)
IllegalCombination ==
    \/ last.op \in OrientationOperations \cup TextReads \cup TextWrites
        /\ m_eFileType # "TEXT"
    \/ last.op \in BlockReads \cup BlockWrites /\ m_eFileType # "BINARY"
    \/ last.op \in TextReads \cup BlockReads /\ m_eFileAccessMode \notin ReadModes
    \/ last.op \in TextWrites \cup BlockWrites /\ m_eFileAccessMode \notin WriteModes

(* C7: a CFile operation called under an illegal (content type, access     *)
(* mode) combination fails an assertion before any native call: text and   *)
(* orientation operations need TEXT, block operations BINARY, reads READ   *)
(* or an *_EXTENDED mode, writes WRITE, APPEND or an *_EXTENDED mode.      *)
C7_GuardedByTypeAndMode ==
    (cls = "CFile" /\ IllegalCombination) => last.out = "assert" /\ last.n = 0

C7_Witness ==
    /\ cls = "CFile" /\ last.op = "GetByteCharacter"
    /\ m_eFileType = "TEXT" /\ m_eFileAccessMode = "WRITE"
    /\ last.out = "assert" /\ last.n = 0

BlockOperations == BlockReads \cup BlockWrites
NullOrZeroLength == last.ptr = "null" \/ last.arg * last.size = 0

(* C8: in both handles a block read or write with a null buffer or a zero  *)
(* length fails an assertion before any native call.                       *)
C8_NullOrZeroAsserts ==
    (last.op \in BlockOperations /\ NullOrZeroLength) =>
        last.out = "assert" /\ last.n = 0

(* C8, amended: in CFile a block read or write with a null buffer or a     *)
(* zero length fails an assertion before any native call; in PosixFile     *)
(* only a null buffer with a non-zero length does, and a request of zero   *)
(* length, null buffer or not, is forwarded to the native read or write.   *)
C8_Amended ==
    /\ (cls = "CFile" /\ last.op \in BlockOperations /\ NullOrZeroLength) =>
            last.out = "assert" /\ last.n = 0
    /\ (cls = "PosixFile" /\ last.op \in BlockOperations) =>
        /\ (last.ptr = "null" /\ last.arg # 0) => last.out = "assert" /\ last.n = 0
        /\ last.arg = 0 => last.out # "assert" /\ last.n = 1

C8_Witness ==
    /\ cls = "PosixFile" /\ last.op = "ReadBytes" /\ last.ptr = "null" /\ last.arg = 0
    /\ last.out = "return" /\ last.n = 1

(* What GetFilePosition and GetFileLength return in the current state. *)
PositionNow ==
    IF cls = "CFile" THEN CFile_GetFilePosition(This, Machine, NoFault).ret
    ELSE PosixFile_GetFilePosition(This, Machine, NoFault).ret
LengthNow ==
    IF cls = "CFile" THEN CFile_GetFileLength(This, Machine, NoFault).ret
    ELSE PosixFile_GetFileLength(This, Machine, NoFault).ret
SameEffect(a, b) == a.out = b.out /\ a.kind = b.kind /\ a.code = b.code /\ a.s = b.s

(* C9: in both handles, after a successful SeekSet(k), k >= 0, also beyond *)
(* the end of the file, GetFilePosition returns k; after a successful      *)
(* SeekEnd(0) GetFilePosition equals GetFileLength; and SetFilePosition(p) *)
(* has the effect of SeekSet(p), in every state and under every fault.     *)
C9_PositionAfterSeek ==
    /\ (life = "alive" /\ last.out = "return") =>
        /\ (last.op \in {"SeekSet", "SetFilePosition"} /\ last.arg >= 0) =>
                PositionNow = last.arg
        /\ (last.op = "SeekEnd" /\ last.arg = 0) => PositionNow = LengthNow
    /\ (life = "alive" /\ last = Idle) =>
        \A p \in Positions, flt \in Faults(1) :
            IF cls = "CFile"
            THEN SameEffect(CFile_SetFilePosition(This, Machine, p, flt),
                            CFile_SeekSet(This, Machine, p, flt))
            ELSE SameEffect(PosixFile_SetFilePosition(This, Machine, p, flt),
                            PosixFile_SeekSet(This, Machine, p, flt))

C9_Witness ==
    /\ life = "alive" /\ last.op = "SeekSet" /\ last.out = "return"
    /\ last.arg > Len(disk.data) /\ calls = MaxCalls /\ PositionNow = last.arg

(* C10: in both handles EndOfFile returns true iff GetFilePosition >=      *)
(* GetFileLength, GetBytesRemaining returns length - position when         *)
(* position < length and 0 otherwise, also for a position past the end,    *)
(* and EndOfFile is true iff GetBytesRemaining is 0.                       *)
C10_EndOfFileAndRemaining ==
    (life = "alive" /\ last.out = "return") =>
        /\ last.op = "EndOfFile" => (last.ret = 1 <=> PositionNow >= LengthNow)
        /\ last.op = "GetBytesRemaining" =>
            /\ PositionNow < LengthNow => last.ret = LengthNow - PositionNow
            /\ PositionNow >= LengthNow => last.ret = 0
            /\ IF cls = "CFile"
               THEN CFile_EndOfFile(This, Machine, NoFault).ret = 1 <=> last.ret = 0
               ELSE PosixFile_EndOfFile(This, Machine, NoFault).ret = 1 <=> last.ret = 0

C10_Witness ==
    /\ life = "alive" /\ last.op = "GetBytesRemaining" /\ last.out = "return"
    /\ PositionNow > LengthNow /\ last.ret = 0

(* The handle is a CFile constructed on the file that the handle before it *)
(* created, wrote with WriteBytes and closed, and the call just made is    *)
(* the first one on it.                                                    *)
Reopened ==
    /\ hist.handles = 2 /\ hist.known /\ cls = "CFile"
    /\ life = "alive" /\ calls = 1

(* C11: the bytes written with WriteBytes through a BINARY handle that     *)
(* opened the file for writing, N >= 1 of them, are what ReadBytes for N   *)
(* bytes returns, N and the bytes in order, through a BINARY READ handle   *)
(* constructed on the path after the writing handle was destroyed.         *)
C11_BinaryRoundTrip ==
    (/\ Reopened /\ m_eFileType = "BINARY" /\ m_eFileAccessMode = "READ"
     /\ Len(hist.wrote) >= 1
     /\ last.op = "ReadBytes" /\ last.ptr = "buffer" /\ last.arg = Len(hist.wrote)
     /\ last.errno = 0) =>
        /\ last.out = "return"
        /\ last.ret = Len(hist.wrote)
        /\ last.buf = hist.wrote

C11_Witness ==
    /\ Reopened /\ m_eFileType = "BINARY" /\ m_eFileAccessMode = "READ"
    /\ hist.wrote = <<CH, NL>>
    /\ last.op = "ReadBytes" /\ last.arg = 2 /\ last.n = 4
    /\ last.ret = 2 /\ last.buf = <<CH, NL>>

(* C12: after N bytes were written to a file the handle created empty,     *)
(* GetFileLength returns N: on the writing handle right after the write    *)
(* returned, with no Flush, seek or close in between, and on a handle that *)
(* reopens the file.                                                       *)
C12_LengthAfterWrite ==
    /\ (/\ cls = "CFile" /\ hist.pure /\ Len(hist.now) >= 1
        /\ last.op = "GetFileLength" /\ last.out = "return") =>
            last.ret = Len(hist.now)
    /\ (/\ Reopened /\ m_eFileAccessMode \notin {"WRITE", "WRITE_EXTENDED"}
        /\ last.op = "GetFileLength" /\ last.out = "return") =>
            last.ret = Len(hist.wrote)

(* What holds of the handle when the file has the length n its last call,  *)
(* SetFileLength(n), gave it: GetFileLength returns n, now and after the   *)
(* stream is flushed, and from a position at or past n a read of one byte  *)
(* that returns has transferred nothing and leaves EndOfFile true.         *)
TruncationTookEffect ==
    LET n == last.arg
    IN /\ LengthNow = n
       /\ cls = "CFile" =>
            CFile_GetFileLength(This, CFile_Flush(This, Machine, NoFault).s, NoFault).ret = n
       /\ PositionNow >= n =>
            LET r == IF cls = "CFile"
                     THEN CFile_ReadBytes(This, Machine, "buffer", 1, 1, NoFault)
                     ELSE PosixFile_ReadBytes(This, Machine, "buffer", 1, 1, NoFault)
                e == IF cls = "CFile" THEN CFile_EndOfFile(This, r.s, NoFault)
                     ELSE PosixFile_EndOfFile(This, r.s, NoFault)
            IN r.out = "return" => r.ret = 0 /\ e.ret = 1

(* C13: after a SetFileLength(n) that returned, n smaller than the length  *)
(* the file had, in either handle: GetFileLength returns n from then on    *)
(* and a read at a position >= n transfers nothing and is at the end of    *)
(* the file, also when the handle held buffered data beyond n.             *)
C13_TruncationTakesEffect ==
    [][(/\ life = "alive" /\ last = Idle
        /\ last'.op = "SetFileLength" /\ last'.out = "return"
        /\ last'.arg < LengthNow) => TruncationTookEffect']_vars

(* The whole elements of the given size between the stream's position and  *)
(* the end of the file, pending output counted in.                         *)
WholeElementsRemaining(size) ==
    LET t == FlushBuf(Machine)
    IN IF t.res.pos < Len(t.disk.data)
       THEN (Len(t.disk.data) - t.res.pos) \div size
       ELSE 0

AtEndOfFile == CFile_EndOfFile(This, Machine, NoFault).ret = 1

(* C14: CFile ReadElements (and ReadBytes, its case of size 1) returns at  *)
(* most count, and fewer only at the end of the file; with no native error *)
(* it returns, the smaller of count and the whole elements that remained,  *)
(* also when the native reads are short (they are retried); a native read  *)
(* that fails raises file_read_error at once.                              *)
C14_ReadElementsCount ==
    [][(/\ life = "alive" /\ cls = "CFile" /\ last = Idle
        /\ last'.op \in BlockReads /\ last'.out # "assert") =>
           /\ last'.out = "return" =>
                /\ last'.ret <= last'.arg
                /\ last'.ret < last'.arg => AtEndOfFile'
                /\ last'.ret = Min(last'.arg, WholeElementsRemaining(last'.size))
                /\ Len(last'.buf) = last'.ret * last'.size
           /\ last'.errno = 0 => last'.out = "return"
           /\ (last'.n = 1 /\ last'.errno # 0) =>
                last'.out = "raise" /\ last'.kind = "file_read_error"]_vars

(* Both elements of a file of two are read by two native reads of one. *)
C14_WitnessRetried ==
    /\ cls = "CFile" /\ last.op = "ReadElements" /\ last.out = "return"
    /\ last.size = 1 /\ last.arg = 2 /\ last.ret = 2 /\ last.n = 4

(* More elements are asked for than remain. *)
C14_Witness ==
    /\ cls = "CFile" /\ last.op = "ReadElements" /\ last.out = "return"
    /\ last.size = 2 /\ last.arg = 2 /\ last.ret = 1 /\ AtEndOfFile

(* The file as it is once the stream's pending output has reached it. *)
FileNow == FlushBuf(Machine).disk.data
(* Where the next byte written goes: the position, in append mode the end. *)
WriteOffset == IF res.append THEN Len(FileNow) ELSE res.pos

(* C15: CFile WriteElements (and WriteBytes, its case of size 1) raises    *)
(* file_write_error or returns count: with no native error it returns     *)
(* count, also when the native writes are short (they are retried from the *)
(* first element not written), and the elements are then in the file once  *)
(* and in order; a native write that fails raises file_write_error at      *)
(* once.                                                                   *)
C15_WriteElementsAll ==
    [][(/\ life = "alive" /\ cls = "CFile" /\ last = Idle
        /\ last'.op \in BlockWrites /\ last'.out # "assert") =>
           /\ last'.out = "return" =>
                /\ last'.ret = last'.arg
                /\ Len(last'.buf) = last'.arg * last'.size
                /\ FileNow' = Overlay(FileNow, WriteOffset, last'.buf)
                /\ res'.pos = WriteOffset + Len(last'.buf)
           /\ last'.out = "raise" => last'.kind = "file_write_error"
           /\ last'.errno = 0 => last'.out = "return"
           /\ (last'.n = 1 /\ last'.errno # 0) => last'.out = "raise"]_vars

(* Two bytes are written by two native writes of one. *)
C15_Witness ==
    /\ cls = "CFile" /\ last.op = "WriteBytes" /\ last.out = "return"
    /\ last.buf = <<CH, NL>> /\ last.ret = 2 /\ last.n = 2
    /\ FileNow = <<CH, NL>>

(* C16: PosixFile ReadBytes and WriteBytes issue one native read or write, *)
(* never a second; they return the number of bytes that call transferred,  *)
(* from 0 to the number asked for, and raise file_read_error or            *)
(* file_write_error exactly when the native call failed.                   *)
C16_OneNativeTransfer ==
    [][(/\ life = "alive" /\ cls = "PosixFile" /\ last = Idle
        /\ last'.op \in BlockOperations /\ last'.out # "assert") =>
           /\ last'.n = 1
           /\ last'.out = "raise" <=> last'.errno # 0
           /\ last'.out = "raise" =>
                /\ last'.kind = IF last'.op = "ReadBytes" THEN "file_read_error"
                                ELSE "file_write_error"
                /\ disk' = disk /\ res'.pos = res.pos
           /\ last'.out = "return" =>
                /\ last'.ret \in 0..last'.arg
                /\ last'.op = "ReadBytes" =>
                     /\ last'.buf = SubSeq(disk.data, res.pos + 1, res.pos + last'.ret)
                     /\ res'.pos = res.pos + last'.ret
                     /\ disk' = disk
                /\ last'.op = "WriteBytes" =>
                     /\ disk'.data = IF last'.ret = 0 THEN disk.data
                                     ELSE Overlay(disk.data, WriteOffset,
                                                  SubSeq(last'.buf, 1, last'.ret))
                     /\ last'.ret > 0 => res'.pos = WriteOffset + last'.ret]_vars

(* One native read transferred fewer bytes than asked for and than the     *)
(* file holds, and ReadBytes returned it.                                  *)
C16_Witness ==
    /\ cls = "PosixFile" /\ last.op = "ReadBytes" /\ last.out = "return"
    /\ last.arg = 2 /\ last.ret = 1 /\ last.n = 1 /\ Len(disk.data) - res.pos >= 1

(* C17: GetByteCharacter and GetWideCharacter raise file_read_error        *)
(* exactly when the native get failed (it returned the end-of-file marker  *)
(* and set errno); the marker without an error is returned as a value; the *)
(* wide variant raises as the byte variant does.                           *)
C17_ReadErrorIffNativeError ==
    (/\ cls = "CFile"
     /\ last.op \in {"GetByteCharacter", "GetWideCharacter"}
     /\ last.n = 1) =>
        /\ last.errno # 0 => last.out = "raise" /\ last.kind = "file_read_error"
        /\ last.errno = 0 => last.out = "return"
        /\ (last.errno = 0 /\ res.pos >= Len(disk.data) /\ res.pushback = <<>>) =>
               last.ret \in {BYTE_END_OF_FILE} \cup WideEOFs

(* What the stream has yet to deliver: the character pushed back, then the *)
(* file from the position on.                                              *)
Unread ==
    LET m == FlushBuf(Machine)
    IN m.res.pushback \o
       SubSeq(m.disk.data, m.res.pos + Len(m.res.pushback) + 1, Len(m.disk.data))

(* The place of the first terminator in Unread, 0 when there is none. *)
NextTerminator ==
    IF \E i \in 1..Len(Unread) : Unread[i] = NL
    THEN CHOOSE i \in 1..Len(Unread) :
            Unread[i] = NL /\ \A j \in 1..(i - 1) : Unread[j] # NL
    ELSE 0

NextString ==
    IF NextTerminator = 0 THEN Unread ELSE SubSeq(Unread, 1, NextTerminator - 1)

AfterNextString ==
    IF NextTerminator = 0 THEN <<>>
    ELSE SubSeq(Unread, NextTerminator + 1, Len(Unread))

(* C18: GetByteString and GetWideString return the characters up to, not   *)
(* including, the next terminator or the end of the file, each once and in *)
(* order, whatever the length of the line; the terminator is consumed; at  *)
(* the end of the file the result is the empty string.                     *)
C18_StringIsNextLine ==
    [][(/\ life = "alive" /\ cls = "CFile" /\ last = Idle
        /\ last'.op \in {"GetByteString", "GetWideString"}
        /\ last'.out = "return") =>
           /\ last'.buf = NextString
           /\ Unread' = AfterNextString
           /\ Unread = <<>> => last'.buf = <<>>]_vars

(* A line of twice the chunk buffer's length, ended by a terminator, was   *)
(* returned whole by GetByteString and the terminator consumed.            *)
C18_Witness ==
    /\ cls = "CFile" /\ last.op = "GetByteString" /\ last.out = "return"
    /\ disk.data = <<CH, CH, CH, CH, NL>>
    /\ last.buf = <<CH, CH, CH, CH>> /\ Len(last.buf) = 2 * BYTE_STRING_BUFFER_LENGTH
    /\ res.pos = 5 /\ last.n = 5

(* C19: GetByteLine and GetWideLine return what the string variant would   *)
(* return, followed by one terminator exactly when the line ended at a     *)
(* terminator and not at the end of the file, whatever the line's length.  *)
C19_LineIsStringAndTerminator ==
    [][(/\ life = "alive" /\ cls = "CFile" /\ last = Idle
        /\ last'.op \in {"GetByteLine", "GetWideLine"}
        /\ last'.out = "return") =>
           /\ last'.buf = CFile_GetByteString(This, Machine, NoFault).buf
                               \o (IF NextTerminator # 0 THEN <<NL>> ELSE <<>>)
           /\ last'.buf = NextString \o (IF NextTerminator # 0 THEN <<NL>> ELSE <<>>)
           /\ Unread' = AfterNextString]_vars

(* A line as long as the chunk buffer, ended by a terminator, was returned *)
(* by GetWideLine with its terminator; and a line ended by the end of the  *)
(* file is returned without one.                                           *)
C19_Witness ==
    /\ cls = "CFile" /\ last.op = "GetWideLine" /\ last.out = "return"
    /\ disk.data = <<CH, CH, NL, CH>>
    /\ last.buf = <<CH, CH, NL>> /\ res.pos = 3

(* C20: PutByteLine(s) and PutWideLine(s) write s followed by one          *)
(* terminator and return the length of s plus 1.                           *)
C20_PutLineReturnsLengthPlusOne ==
    [][(/\ life = "alive" /\ cls = "CFile" /\ last = Idle
        /\ last'.op \in {"PutByteLine", "PutWideLine"}
        /\ last'.out = "return") =>
           /\ FileNow' = Overlay(FileNow, WriteOffset, last'.buf \o <<NL>>)
           /\ last'.ret = Len(last'.buf) + 1]_vars

(* C21: on a TEXT handle opened for reading and writing on an empty file,  *)
(* PutByteLine(s), Rewind(), GetByteLine() returns s followed by one       *)
(* terminator and GetByteString() in its place returns s, for every s      *)
(* without a terminator in it; PutWideLine with the wide readers likewise. *)
C21_LineRoundTrip ==
    (/\ hist.calls = 3 /\ hist.pure /\ cls = "CFile" /\ last.errno = 0
     /\ \/ res.orient = -1 /\ last.op \in {"GetByteString", "GetByteLine"}
        \/ res.orient = 1 /\ last.op \in {"GetWideString", "GetWideLine"}) =>
        /\ last.out = "return"
        /\ last.op \in {"GetByteLine", "GetWideLine"} => last.buf = hist.now \o <<NL>>
        /\ last.op \in {"GetByteString", "GetWideString"} => last.buf = hist.now

(* A string longer than the chunk buffer came back from GetWideLine with   *)
(* its terminator after PutWideLine and Rewind.                            *)
C21_Witness ==
    /\ hist.calls = 3 /\ hist.pure /\ res.orient = 1
    /\ hist.now = <<CH, CH, CH>>
    /\ last.op = "GetWideLine" /\ last.out = "return" /\ last.buf = <<CH, CH, CH, NL>>

(* The operations that read or write byte characters, and wide ones. *)
ByteCharacterOperations ==
    {"GetByteCharacter", "UngetByteCharacter", "PutByteCharacter", "GetByteString",
     "GetByteLine", "PutByteString", "PutByteLine", "PrintByte", "ScanByte"}
WideCharacterOperations ==
    {"GetWideCharacter", "UngetWideCharacter", "PutWideCharacter", "GetWideString",
     "GetWideLine", "PutWideString", "PutWideLine", "PrintWide", "ScanWide"}

(* A method of a TEXT handle is called and does not end in a failed assertion. *)
TextCall ==
    /\ life = "alive" /\ cls = "CFile" /\ m_eFileType = "TEXT" /\ last = Idle
    /\ last'.op \notin {"none", "~CFile"} /\ last'.out # "assert"

(* C22: a freshly constructed TEXT handle has no orientation and           *)
(* GetCharacterMode reports 0 (NO_ORIENTATION) on it; one wide-character   *)
(* write gives it the wide orientation (a byte-character write the byte    *)
(* orientation), which GetCharacterMode then reports; and GetCharacterMode *)
(* never changes the orientation.                                          *)
C22_OrientationReported ==
    [][TextCall =>
         /\ calls = 0 => res.orient = 0
         /\ (last'.op = "GetCharacterMode") =>
               /\ last'.out = "return"
               /\ last'.ret = res.orient
               /\ res'.orient = res.orient
         /\ (res.orient = 0 /\ last'.op = "PutWideCharacter" /\ last'.out = "return") =>
               res'.orient = 1
         /\ (res.orient = 0 /\ last'.op = "PutByteCharacter" /\ last'.out = "return") =>
               res'.orient = -1]_vars

(* GetCharacterMode reported the wide orientation as the second call on a  *)
(* handle whose first call wrote a wide character to the file it created.  *)
C22_Witness ==
    /\ cls = "CFile" /\ m_eFileType = "TEXT" /\ m_eFileAccessMode = "WRITE"
    /\ calls = 2 /\ FileNow = <<CH>>
    /\ last.op = "GetCharacterMode" /\ last.out = "return" /\ last.ret = 1

(* C23: once a TEXT handle is byte- or wide-oriented, no call changes the  *)
(* orientation, and every GetCharacterMode and SetCharacterMode returns    *)
(* it; an unoriented handle takes the orientation of the first             *)
(* SetCharacterMode request that is not neutral and of the first byte or   *)
(* wide operation.                                                         *)
C23_OrientationPermanent ==
    [][TextCall =>
         /\ res.orient # 0 =>
               /\ res'.orient = res.orient
               /\ last'.op \in OrientationOperations =>
                     last'.out = "return" /\ last'.ret = res.orient
         /\ (res.orient = 0 /\ last'.op = "SetCharacterMode") =>
               res'.orient = last'.arg /\ last'.ret = last'.arg
         /\ (res.orient = 0 /\ last'.out = "return"
                /\ last'.op \in ByteCharacterOperations) => res'.orient = -1
         /\ (res.orient = 0 /\ last'.out = "return"
                /\ last'.op \in WideCharacterOperations) => res'.orient = 1]_vars

(* The wide orientation was asked for on a byte-oriented handle: the call *)
(* returned the byte orientation and the handle is still byte-oriented.    *)
C23_Witness ==
    /\ cls = "CFile" /\ m_eFileType = "TEXT" /\ calls = 2
    /\ last.op = "SetCharacterMode" /\ last.arg = 1
    /\ last.out = "return" /\ last.ret = -1 /\ res.orient = -1

(* C24: SetCharacterMode asking for the orientation opposite to the one    *)
(* the handle has does not complete as a normal call that returns the      *)
(* unchanged orientation.                                                  *)
C24_FlipIsNotHandled ==
    (/\ cls = "CFile" /\ last.op = "SetCharacterMode"
     /\ last.arg # 0 /\ res.orient = -last.arg) => last.out # "return"

(* C26: SetBuffer never raises: it returns true exactly when the native    *)
(* buffering call succeeded and false when it failed; SetOptimalBuffer     *)
(* asks for FULL buffering and returns SetBuffer's result; every other     *)
(* operation whose native call fails raises.                               *)
C26_OnlySetBufferReportsByResult ==
    [][(/\ life = "alive" /\ cls = "CFile" /\ last = Idle
        /\ last'.op \notin {"none", "~CFile"} /\ last'.n >= 1) =>
           /\ last'.op = "SetBuffer" =>
                /\ last'.out = "return"
                /\ last'.ret = 1 <=> last'.errno = 0
                /\ last'.ret = 0 => res' = res
           /\ last'.op = "SetOptimalBuffer" =>
                /\ last'.out = "raise" => last'.n = 1 /\ last'.kind = "file_status_error"
                /\ last'.out # "raise" =>
                     /\ last'.out = "return" /\ last'.n = 2
                     /\ last'.ret = 1 <=> last'.errno = 0
                     /\ last'.ret = 1 => res'.bufMode = "FULL"
                     /\ last'.ret = 0 => res' = res
           /\ (last'.op \notin {"SetBuffer", "SetOptimalBuffer"} /\ last'.errno # 0) =>
                last'.out = "raise"]_vars

(* C27: every call of ReadElements ends, and ends by returning or by       *)
(* raising file_read_error, whatever the file's length, the position, the  *)
(* element size and the count, also when less than one element is left     *)
(* before the end of the file and when the native reads are short.         *)
C27_ReadElementsEnds ==
    /\ (frame.pc # "none") ~> (frame.pc = "none")
    /\ [](last.op = "ReadElements" =>
             \/ last.out = "return"
             \/ last.out = "raise" /\ last.kind = "file_read_error")

(* Every call of ReadElements ends. *)
ReadElementsTerminates == (frame.pc # "none") ~> (frame.pc = "none")

(* C29: a composite operation whose native call fails after earlier native *)
(* calls of the same operation succeeded raises its typed error, returns   *)
(* neither a partial result nor a count, and leaves in effect what was     *)
(* done: the string and line readers have consumed the characters read,    *)
(* PutByteLine and PutWideLine have written the string, ReadElements and   *)
(* WriteElements have transferred the elements before the failure.         *)
C29_NoRollback ==
    [][(/\ life = "alive" /\ cls = "CFile" /\ last = Idle
        /\ last'.n >= 2 /\ last'.errno # 0
        /\ last'.op \in {"GetByteString", "GetByteLine", "GetWideString", "GetWideLine",
                          "PutByteLine", "PutWideLine"} \cup BlockOperations) =>
           /\ last'.out = "raise" /\ last'.ret = 0 /\ last'.buf = <<>>
           /\ last'.op \in {"GetByteString", "GetByteLine", "GetWideString", "GetWideLine"} =>
                /\ last'.kind = "file_read_error"
                /\ Unread' = SubSeq(Unread, last'.n, Len(Unread))
           /\ last'.op \in {"PutByteLine", "PutWideLine"} =>
                /\ last'.kind = "file_write_error"
                /\ \E str \in Seqs(Written, MaxStr) :
                      /\ Len(str) = last'.arg
                      /\ FileNow' = IF str = <<>> THEN FileNow
                                    ELSE Overlay(FileNow, WriteOffset, str)
           /\ (last'.op \in BlockReads /\ Len(Unread) >= last'.size) =>
                \E k \in 1..last'.arg :
                    Unread' = SubSeq(Unread, k * last'.size + 1, Len(Unread))
           /\ last'.op \in BlockWrites =>
                /\ last'.kind = "file_write_error"
                /\ \E k \in 1..(last'.arg - 1), b \in Seqs(Written, MaxLen * MaxElem) :
                      /\ Len(b) = k * last'.size
                      /\ FileNow' = Overlay(FileNow, WriteOffset, b)]_vars

-----------------------------------------------------------------------------
(* Threads and the lock of the handle *)

Shared == threads # NoThreads

HoldsLock(t) == threads.held[t] > 0

OthersHold(t) == \E u \in Threads \ {t} : HoldsLock(u)

MutualExclusion ==
    Shared => \A t \in Threads : HoldsLock(t) => threads.lock.owner = t /\ ~OthersHold(t)

TryLockFileNeverBlocks ==
    \A t \in Threads :
        ThreadAt(t, "ready") /\ threads.ops < MaxOps => ENABLED Thread_TryLockFile_By(t)

(* The step is the return of TryLockFile to thread t. *)
TryLockFileReturns(t) ==
    /\ Shared /\ threads'.ops = threads.ops + 1 /\ threads'.pc = threads.pc
    /\ threads'.by = t

TryLockFileTrueIffAcquired ==
    \A t \in Threads :
        TryLockFileReturns(t) =>
            /\ threads'.call[t].ret <=> ~OthersHold(t)
            /\ threads'.call[t].ret =>
                   threads'.lock.owner = t /\ threads'.held[t] = threads.held[t] + 1
            /\ ~threads'.call[t].ret =>
                   threads'.lock = threads.lock /\ threads'.held[t] = threads.held[t]

LockFileReturnsHolding ==
    \A t \in Threads :
        Shared /\ threads.pc[t] = "locking" /\ threads'.pc[t] = "ready" =>
            threads'.lock.owner = t /\ HoldsLock(t)' /\ ~OthersHold(t)'

LockFileReturns ==
    \A t \in Threads :
        (Shared /\ threads.pc[t] = "locking")
            ~> (Shared /\ threads.pc[t] = "ready" /\ HoldsLock(t))

(* The step is the return of UnlockFile to thread t. *)
UnlockFileReturns(t) == Shared /\ threads'.held[t] = threads.held[t] - 1

(* C25 (as the specification states it): at most one thread holds the      *)
(* lock; TryLockFile never blocks and returns true iff the caller acquired *)
(* the lock; LockFile returns only with the lock held by the caller, and   *)
(* returns when holders unlock; after UnlockFile by the holder the lock is *)
(* free.                                                                    *)
C25_UnlockFileReleases ==
    /\ [](MutualExclusion /\ TryLockFileNeverBlocks)
    /\ [][TryLockFileTrueIffAcquired /\ LockFileReturnsHolding]_vars
    /\ LockFileReturns
    /\ [][\A t \in Threads : UnlockFileReturns(t) => threads'.lock.owner = 0]_vars

(* C25 (amended): as above, but UnlockFile by the holder undoes one of its *)
(* acquisitions: the lock is free after it exactly when the holder has     *)
(* called UnlockFile once for every LockFile and every successful          *)
(* TryLockFile it made.                                                     *)
C25_UnlockFileUndoesOneAcquisition ==
    /\ [](MutualExclusion /\ TryLockFileNeverBlocks)
    /\ [][TryLockFileTrueIffAcquired /\ LockFileReturnsHolding]_vars
    /\ LockFileReturns
    /\ [][\A t \in Threads :
             UnlockFileReturns(t) =>
                 /\ threads'.lock.count = threads.lock.count - 1
                 /\ threads'.lock.owner = 0 <=> threads'.held[t] = 0
                 /\ threads'.lock.owner # 0 => threads'.lock.owner = t]_vars

(* Thread 1 has locked twice and unlocked once: it still holds the lock,   *)
(* and TryLockFile of thread 2 has returned false.                          *)
C25_Witness ==
    /\ Shared
    /\ threads.call[1].op = "UnlockFile" /\ threads.held[1] = 1
    /\ threads.lock = [owner |-> 1, count |-> 1]
    /\ threads.call[2].op = "TryLockFile" /\ ~threads.call[2].ret

(* Whatever the file holds, each character that is not a terminator is     *)
(* followed by a terminator, the last character written excepted.          *)
LinesWhole ==
    \A i \in 1..(Len(FileNow) - 1) : FileNow[i] # NL => FileNow[i + 1] = NL

(* C28: when every PutByteLine is made by a thread that holds the lock,    *)
(* between its LockFile and its UnlockFile, the content and the terminator *)
(* written by one call are contiguous in the file.                          *)
C28_BracketedLinesContiguous == Shared /\ ~threads.bare => LinesWhole

(* Two threads have each written a line under the lock, thread 2 first. *)
C28_Witness ==
    /\ Shared /\ ~threads.bare
    /\ FileNow = <<ThreadCharacter(2), NL, ThreadCharacter(1), NL>>
    /\ \A t \in Threads : threads.call[t].op = "UnlockFile" /\ ~HoldsLock(t)

(* Without the lock the two native writes of two calls do interleave. *)
InterleavedWithoutLock ==
    /\ Shared /\ threads.bare
    /\ FileNow = <<ThreadCharacter(1), ThreadCharacter(2), NL, NL>>

====
